---- MODULE Spec2Model ----
(***************************************************************************)
(* A model of the robot-consortium orchestration engine:                   *)
(*   - the agent dispatcher (agents.ts: runAgent, runAgentsInParallel),    *)
(*   - the state store (state.ts),                                         *)
(*   - the BUILD scheduler, the OINK verifier, the PR and CI_CHECK phases, *)
(*   - the phase state machine (orchestrator.ts: runFromPhase) and the CLI *)
(*     commands start / resume (cli.ts).                                   *)
(***************************************************************************)
EXTENDS Integers, Sequences, FiniteSets, TLC

(***************************************************************************)
(* Bounds of the model.                                                    *)
(***************************************************************************)
\* Largest batch handed to runAgentsInParallel in SpecDispatch.
MaxBatch == 3
\* CLI commands and phase calls issued in Spec.
MaxCommands == 3
\* Returns from OINK to BUILD taken in Spec.
MaxRetries == 1
\* Largest number of entries a sizing call lists in Spec.
MaxSizing == 2
\* Largest task list, and largest task number, the extraction returns in Spec.
MaxTasks == 1
MaxId == 1
\* Phase calls issued in SpecCI.
MaxCalls == 7
\* Largest task list, and largest task number, the extraction returns in
\* SpecBuild.
BuildTasks == 2
BuildIds == 3
\* Most questions, and most artifact list entries, of a Run in SpecStore.
MaxStore == 2
\* Most lines between the markers of a sizing call's output.
MaxLines == 6

VARIABLES
  \* ---- dispatcher (one call of runAgentsInParallel) ----
  dStatus,    \* "idle" | "awaiting" | "returned" | "threw"
  dN,         \* agents.length of the call
  dProc,      \* per unit: "running" | "errored" | "closed" (the child process)
  dPromise,   \* per unit: the settlement of the promise runAgent returned
  dValues,    \* the value array Promise.all fills
  dResults,   \* the array the call returned
  dOrder,     \* the units in the order their promises settled
  dEvents,    \* per unit: the events its child process fired, in order
  \* ---- the persisted Run: .robot-consortium/state.json ----
  disk,       \* NoRun, or the ConsortiumState last written by saveState
  \* ---- the CLI process ----
  pc,         \* "idle" (no process), or the position of the running process
  idx,        \* runFromPhase: the loop index i into phases (0-based)
  autoYes,    \* orchestrator.ts: the module flag set from --yes
  exitc,      \* how the last process ended
  build,      \* runBuildPhase: its local variables
  oink,       \* runFromPhase: oinkResult
  ci,         \* runCICheckPhase / runPRPhase: the result returned last
  \* ---- history ----
  cmds,       \* number of CLI commands and phase calls issued so far
  retries,    \* number of OINK -> BUILD returns taken so far
  entry,      \* the persisted phase runConsortium read when the process began
  ran,        \* the phase functions the current process has called, in order
  resumeLog,  \* per resume: the Run it loaded, the loop index it chose, and how
              \* the process before it had ended
  \* ---- the state file as text, and a call of loadState on it ----
  file,       \* whether state.json exists, and its text
  loaded,     \* the file the last loadState call read, and what it returned
  \* ---- the store called directly ----
  arts,       \* the artifact files in findings/, plans/, reviews/
  call,       \* the last store call: its name, whether it threw or wrote
  \* ---- a sizing call (analyzeSurferNeeds and the like) ----
  sizing,     \* its output and the number of units it leads to
  \* ---- one call of runPlanPhase ----
  planOut,    \* its inputs and what it returned
  \* ---- the questions of a phase's units (runFromPhase) ----
  asked       \* what the units wrote, what was shown, how far the loop got

dispatchVars ==
  <<dStatus, dN, dProc, dPromise, dValues, dResults, dOrder, dEvents>>

machineVars ==
  <<disk, pc, idx, autoYes, exitc, build, oink, ci, cmds, retries, entry,
    ran, resumeLog>>

fileVars == <<file, loaded, arts, call, sizing, planOut, asked>>

vars ==
  <<dStatus, dN, dProc, dPromise, dValues, dResults, dOrder, dEvents, disk, pc, idx,
    autoYes, exitc, build, oink, ci, cmds, retries, entry, ran, resumeLog,
    file, loaded, arts, call, sizing, planOut, asked>>

(***************************************************************************)
(* Agent dispatcher: agents.ts                                             *)
(***************************************************************************)
Pending == [kind |-> "pending"]
Resolved(r) == [kind |-> "resolved", value |-> r]
Rejected(r) == [kind |-> "rejected", value |-> r]

\* The AgentResult runAgent resolves with on the child's 'close' event.
\* The output of unit i is its own stdout buffer, written i here.
CloseResult(i, code) ==
  IF code = 0
    THEN [success |-> TRUE, output |-> i, error |-> ""]
    ELSE [success |-> FALSE, output |-> i, error |-> "exit"]

\* The AgentResult runAgent resolves with on the child's 'error' event.
ErrorResult(i) == [success |-> FALSE, output |-> 0, error |-> "spawn"]

\* A faulty runAgent that rejects its promise when the child fails.
OnCloseRejecting(i, code) ==
  IF code = 0 THEN Resolved(CloseResult(i, code)) ELSE Rejected(CloseResult(i, code))

\* proc.on('close'): the promise is resolved, never rejected.
OnClose(i, code) == Resolved(CloseResult(i, code))

\* proc.on('error'): the promise is resolved, never rejected.
OnError(i) == Resolved(ErrorResult(i))

\* A faulty promise that takes the value of the last resolve.
SettleLast(p, s) == s

\* A promise settles once: a later resolve of a settled promise is ignored.
Settle(p, s) == IF p = Pending THEN s ELSE p

\* A faulty join that stores each value in the next free slot (completion order).
PromiseAllByCompletion(values, i, s) ==
  LET free == {k \in DOMAIN values : values[k] = Pending}
      slot == CHOOSE k \in free : \A j \in free : k <= j
  IN  [values EXCEPT ![slot] = s]

\* Promise.all stores the value of promise i at index i.
PromiseAllStore(values, i, s) == [values EXCEPT ![i] = s]

\* agents.map(runAgent): every unit is spawned before the join is awaited.
SpawnAll(n) == [i \in 1..n |-> "running"]

AllResolved == \A i \in 1..dN : dValues[i].kind = "resolved"
AnyRejected == \E i \in 1..dN : dValues[i].kind = "rejected"

\* runAgentsInParallel(agents, optionsPerAgent) with n agents and m options.
DCall(n, m) ==
  /\ dStatus = "idle"
  /\ dN' = n
  /\ dOrder' = <<>>
  /\ dResults' = <<>>
  /\ IF n # m
       THEN /\ dStatus' = "threw"
            /\ dProc' = <<>>
            /\ dEvents' = <<>>
            /\ dPromise' = <<>>
            /\ dValues' = <<>>
       ELSE /\ dStatus' = "awaiting"
            /\ dProc' = SpawnAll(n)
            /\ dEvents' = [i \in 1..n |-> <<>>]
            /\ dPromise' = [i \in 1..n |-> Pending]
            /\ dValues' = [i \in 1..n |-> Pending]
  /\ UNCHANGED <<machineVars, fileVars>>

\* An event of unit i settles its promise (once) and Promise.all records it.
DEvent(i, s, proc) ==
  /\ dProc' = [dProc EXCEPT ![i] = proc]
  /\ dPromise' = [dPromise EXCEPT ![i] = Settle(@, s)]
  /\ IF dPromise[i] = Pending
       THEN /\ dValues' = IF dStatus = "awaiting"
                            THEN PromiseAllStore(dValues, i, s)
                            ELSE dValues
            /\ dOrder' = Append(dOrder, i)
       ELSE UNCHANGED <<dValues, dOrder>>
  /\ UNCHANGED <<dStatus, dN, dResults>>
  /\ UNCHANGED <<machineVars, fileVars>>

\* The child of unit i cannot be spawned: 'error' fires.
DSpawnError(i) ==
  /\ dStatus # "idle"
  /\ i \in DOMAIN dProc
  /\ dProc[i] = "running"
  /\ dEvents' = [dEvents EXCEPT ![i] = Append(@, [ev |-> "error", code |-> -1])]
  /\ DEvent(i, OnError(i), "errored")

\* The child of unit i closes with an exit code ('close' may follow 'error':
\* the child that could not be spawned closes with the error's number, not 0).
DClose(i, code) ==
  /\ dStatus # "idle"
  /\ i \in DOMAIN dProc
  /\ dProc[i] \in {"running", "errored"}
  /\ dProc[i] = "errored" => code # 0
  /\ dEvents' = [dEvents EXCEPT ![i] = Append(@, [ev |-> "close", code |-> code])]
  /\ DEvent(i, OnClose(i, code), "closed")

\* await Promise.all(promises): fulfilled when every promise is, rejected as
\* soon as one is.
DJoin ==
  /\ dStatus = "awaiting"
  /\ AllResolved \/ AnyRejected
  /\ dStatus' = IF AnyRejected THEN "threw" ELSE "returned"
  /\ dResults' = IF AnyRejected THEN <<>> ELSE [i \in 1..dN |-> dValues[i].value]
  /\ UNCHANGED <<dN, dProc, dPromise, dValues, dOrder, dEvents>>
  /\ UNCHANGED <<machineVars, fileVars>>


(***************************************************************************)
(* State store: state.ts                                                   *)
(***************************************************************************)
\* loadState returns null: there is no state file.
NoRun == [phase |-> "NONE"]

Exists(r) == r.phase # "NONE"

\* initializeState: the ConsortiumState written for a new run.
FreshRun(branch) ==
  [phase |-> "INIT",
   tasks |-> <<>>,
   questions |-> [pending |-> <<>>, answered |-> <<>>],
   costs |-> <<>>,
   findings |-> <<>>,
   plans |-> <<>>,
   critiques |-> <<>>,
   reviews |-> <<>>,
   finalPlan |-> <<>>,
   branchName |-> branch,
   prUrl |-> <<>>,
   prNumber |-> <<>>,
   ciCheckAttempts |-> <<>>,
   surferFocuses |-> <<>>,
   plannerPerspectives |-> <<>>,
   ratFocuses |-> <<>>]

UpdatePhase(r, p) == [r EXCEPT !.phase = p]

NoCall == [op |-> "none", id |-> 0, threw |-> FALSE, wrote |-> FALSE,
           removed |-> "NONE"]

\* The state file: absent, or present with a text, written here as a
\* sequence of tokens.
NoFile == [exists |-> FALSE, text |-> <<>>]

\* JSON.stringify(state, null, 2): the document of the state.
Stringify(r) == <<"{", r, "}">>

\* JSON.parse(content): the value of a complete document; a SyntaxError is
\* thrown for any other text, the empty one included.
JsonParse(text) ==
  IF Len(text) = 3 /\ text[1] = "{" /\ text[3] = "}"
    THEN [threw |-> FALSE, value |-> text[2]]
    ELSE [threw |-> TRUE, value |-> NoRun]

\* loadState: null without a file; else JSON.parse of its text, whose
\* exception nothing catches.
LoadState(f) ==
  IF ~f.exists THEN [kind |-> "null", value |-> NoRun]
  ELSE IF JsonParse(f.text).threw THEN [kind |-> "threw", value |-> NoRun]
  ELSE [kind |-> "state", value |-> JsonParse(f.text).value]

NotLoaded == [from |-> NoFile, result |-> [kind |-> "none", value |-> NoRun]]

\* saveState: writeFileSync(statePath, JSON.stringify(state, null, 2))
SaveFile(r) ==
  /\ file' = [exists |-> TRUE, text |-> Stringify(r)]
  /\ UNCHANGED <<loaded, arts, call, sizing, planOut, asked>>
  /\ UNCHANGED <<dispatchVars, machineVars>>

\* The file is left with the first n tokens of its text (a write that was
\* cut short, or an edit by hand).
DamageFile(n) ==
  /\ file.exists
  /\ n < Len(file.text)
  /\ file' = [file EXCEPT !.text = SubSeq(@, 1, n)]
  /\ UNCHANGED <<loaded, arts, call, sizing, planOut, asked>>
  /\ UNCHANGED <<dispatchVars, machineVars>>

\* robot-consortium abort: fs.rmSync(stateDir, { recursive: true })
RemoveFile ==
  /\ file.exists
  /\ file' = NoFile
  /\ UNCHANGED <<loaded, arts, call, sizing, planOut, asked>>
  /\ UNCHANGED <<dispatchVars, machineVars>>

\* A call of loadState(workingDir).
CallLoadState ==
  /\ loaded' = [from |-> file, result |-> LoadState(file)]
  /\ UNCHANGED <<file, arts, call, sizing, planOut, asked>>
  /\ UNCHANGED <<dispatchVars, machineVars>>

\* addTask: the id is made from the number of task records, whatever id the
\* caller's task carried (Omit<Task, 'id'>).
AddTask(r, status, blockedBy) ==
  [r EXCEPT !.tasks =
     Append(@, [id |-> Len(@) + 1, status |-> status, blockedBy |-> blockedBy])]

\* findIndex: the first record with the id, 0 for -1 (none).
TaskIndex(r, id) ==
  IF \E k \in 1..Len(r.tasks) : r.tasks[k].id = id
    THEN CHOOSE k \in 1..Len(r.tasks) :
           /\ r.tasks[k].id = id
           /\ \A j \in 1..(k - 1) : r.tasks[j].id # id
    ELSE 0

\* updateTask on a record that exists.
UpdateTask(r, id, status) ==
  [r EXCEPT !.tasks[TaskIndex(r, id)].status = status]

\* findIndex over questions.pending: the first one with the id, 0 for -1.
QuestionIndex(r, id) ==
  IF \E k \in 1..Len(r.questions.pending) : r.questions.pending[k].id = id
    THEN CHOOSE k \in 1..Len(r.questions.pending) :
           /\ r.questions.pending[k].id = id
           /\ \A j \in 1..(k - 1) : r.questions.pending[j].id # id
    ELSE 0

\* A faulty addQuestion that numbers the question by the pending ones alone.
AddQuestionByPending(r) ==
  [r EXCEPT !.questions.pending =
     Append(@, [id |-> Len(r.questions.pending) + 1, answer |-> <<>>])]

\* addQuestion: the id is made from the number of questions of both
\* collections; the question is pushed on pending, with no answer.
AddQuestion(r) ==
  [r EXCEPT !.questions.pending =
     Append(@, [id |-> Len(r.questions.pending) + Len(r.questions.answered) + 1,
                answer |-> <<>>])]

\* splice(k, 1)
Splice(seq, k) == SubSeq(seq, 1, k - 1) \o SubSeq(seq, k + 1, Len(seq))

\* A faulty answerQuestion that also moves the Run to its next phase.
AnswerQuestionAdvancing(r, id, answer) ==
  LET k == QuestionIndex(r, id)
      q == [r.questions.pending[k] EXCEPT !.answer = <<answer>>]
  IN  [r EXCEPT !.questions = [pending |-> Splice(r.questions.pending, k),
                               answered |-> Append(r.questions.answered, q)],
                !.phase = "BUILD"]

\* A faulty answerQuestion that leaves the question in pending.
AnswerQuestionKeeping(r, id, answer) ==
  LET k == QuestionIndex(r, id)
      q == [r.questions.pending[k] EXCEPT !.answer = <<answer>>]
  IN  [r EXCEPT !.questions.answered = Append(@, q)]

\* answerQuestion on a pending question: the answer is set, the question is
\* spliced out of pending and pushed on answered.
AnswerQuestion(r, id, answer) ==
  LET k == QuestionIndex(r, id)
      q == [r.questions.pending[k] EXCEPT !.answer = <<answer>>]
  IN  [r EXCEPT !.questions = [pending |-> Splice(r.questions.pending, k),
                               answered |-> Append(r.questions.answered, q)]]

AddFinding(r, f) == [r EXCEPT !.findings = Append(@, f)]
AddPlan(r, f) == [r EXCEPT !.plans = Append(@, f)]
AddCritique(r, f) == [r EXCEPT !.critiques = Append(@, f)]
AddReview(r, f) == [r EXCEPT !.reviews = Append(@, f)]
SetFinalPlan(r) == [r EXCEPT !.finalPlan = <<"final-plan.md">>]
SetSurferFocuses(r, n) == [r EXCEPT !.surferFocuses = <<n>>]
SetPlannerPerspectives(r, n) == [r EXCEPT !.plannerPerspectives = <<n>>]
SetRatFocuses(r, n) == [r EXCEPT !.ratFocuses = <<n>>]

\* A faulty loop that records an artifact for every unit, failed or not.
RECURSIVE AddForEveryUnit(_, _, _, _)
AddForEveryUnit(r, kind, res, i) ==
  IF i > Len(res) THEN r
  ELSE AddForEveryUnit(
         CASE kind = "finding" -> AddFinding(r, i)
           [] kind = "plan" -> AddPlan(r, i)
           [] kind = "critique" -> AddCritique(r, i)
           [] OTHER -> AddReview(r, i),
         kind, res, i + 1)

\* results.forEach: one artifact per successful unit, in input order.
RECURSIVE AddArtifacts(_, _, _, _)
AddArtifacts(r, kind, res, i) ==
  IF i > Len(res) THEN r
  ELSE AddArtifacts(
         IF res[i]
           THEN CASE kind = "finding" -> AddFinding(r, i)
                  [] kind = "plan" -> AddPlan(r, i)
                  [] kind = "critique" -> AddCritique(r, i)
                  [] OTHER -> AddReview(r, i)
           ELSE r,
         kind, res, i + 1)

\* A faulty check that lets a phase go on when one unit succeeded.
AnySucceeded(res) == \E i \in 1..Len(res) : res[i]

\* A faulty test that takes a unit that failed to run for one that ran.
NoneFailed(res) == TRUE

\* failedSurfers.length > 0 (failedPlanners, failedPigs): the phase fails.
AllSucceeded(res) == \A i \in 1..Len(res) : res[i]

\* The outcomes of a batch of n units: success or failure per unit.
Outcomes(n) == [1..n -> BOOLEAN]

(***************************************************************************)
(* CLI: cli.ts, and runConsortium / runFromPhase: orchestrator.ts          *)
(***************************************************************************)
\* types.ts: PHASE_ORDER
PHASE_ORDER == <<"INIT", "SURF", "PLAN", "BUILD", "OINK", "PR", "CI_CHECK", "DONE">>

\* runFromPhase: const phases
Phase5 == <<"INIT", "SURF", "PLAN", "BUILD", "OINK">>

\* phases.indexOf(p): 0-based, -1 when p is not in the list.
IndexOf(p) ==
  IF \E k \in 1..Len(Phase5) : Phase5[k] = p
    THEN (CHOOSE k \in 1..Len(Phase5) : Phase5[k] = p) - 1
    ELSE -1

\* phases[i]: undefined outside the list.
PhaseAt(i) == IF i \in 0..(Len(Phase5) - 1) THEN Phase5[i + 1] ELSE "undefined"

\* askYesNo: true without asking under --yes, else the user's answer.
AskYesNo(yes, answer) == IF yes THEN TRUE ELSE answer

\* A faulty start that refuses only while a run is being built or verified.
StartRefusesLate(r) == Exists(r) /\ r.phase \in {"BUILD", "OINK", "PR", "CI_CHECK"}

\* start: "existing && existing.phase !== 'DONE' && existing.phase !== 'FAILED'"
StartRefuses(r) == Exists(r) /\ r.phase # "DONE" /\ r.phase # "FAILED"

\* A faulty resume that goes on with a Run that is DONE or FAILED.
ResumeRefusesNoRun(r) == ~Exists(r)

\* resume: "!state", "state.phase === 'DONE'", "state.phase === 'FAILED'"
ResumeRefuses(r) == ~Exists(r) \/ r.phase \in {"DONE", "FAILED"}

\* A faulty entry that skips the persisted phase under --yes.
StartIndexSkipping(r, yes) == IF yes THEN IndexOf(r.phase) + 1 ELSE IndexOf(r.phase)

\* runConsortium: runFromPhase(workingDir, state.phase); startIndex.
StartIndex(r, yes) == IndexOf(r.phase)

NoBuild == [tasks |-> <<>>, pos |-> 0, failed |-> <<>>, ran |-> {}, ok |-> {},
            prompt |-> {}, first |-> 0, log |-> <<>>]
NoOink == [success |-> FALSE, passed |-> FALSE, feedback |-> {}, verdicts |-> <<>>,
           outs |-> <<>>]
NoCI == [fn |-> "none", success |-> FALSE, ciPassed |-> FALSE,
         needsRetry |-> FALSE, queries |-> 0, fixes |-> 0, red |-> FALSE,
         dirty |-> FALSE, before |-> 0, checks |-> "none", raw |-> <<>>]
NoEntry == [cmd |-> "none", phase |-> "NONE"]

\* The process ends (returns, exits or dies of an uncaught exception): its
\* variables are gone.
EndProcess(code) ==
  /\ pc' = "idle"
  /\ exitc' = code
  /\ idx' = 0
  /\ autoYes' = FALSE
  /\ build' = NoBuild
  /\ oink' = NoOink

\* runConsortium: set autoYes, load the state, enter runFromPhase at its phase.
RunConsortium(r, yes, cmd) ==
  /\ autoYes' = yes
  /\ idx' = StartIndex(r, yes)
  /\ pc' = "loop"
  /\ exitc' = "running"
  /\ entry' = [cmd |-> cmd, phase |-> r.phase]
  /\ ran' = <<>>
  /\ build' = NoBuild
  /\ oink' = NoOink

\* robot-consortium start
Start(yes, branch) ==
  /\ pc = "idle"
  /\ cmds' = cmds + 1
  /\ IF StartRefuses(disk)
       THEN /\ EndProcess("refused")
            /\ entry' = [cmd |-> "start", phase |-> disk.phase]
            /\ ran' = <<>>
            /\ UNCHANGED disk
       ELSE /\ disk' = FreshRun(branch)
            /\ RunConsortium(FreshRun(branch), yes, "start")
  /\ ci' = NoCI
  /\ UNCHANGED <<retries, resumeLog>>
  /\ UNCHANGED <<dispatchVars, fileVars>>

\* robot-consortium resume
Resume(yes) ==
  /\ pc = "idle"
  /\ cmds' = cmds + 1
  /\ IF ResumeRefuses(disk)
       THEN /\ EndProcess(IF ~Exists(disk) THEN "no_run"
                          ELSE IF disk.phase = "DONE" THEN "already_done"
                          ELSE "failed_state")
            /\ entry' = [cmd |-> "resume", phase |-> disk.phase]
            /\ ran' = <<>>
            /\ UNCHANGED resumeLog
       ELSE /\ RunConsortium(disk, yes, "resume")
            /\ resumeLog' = Append(resumeLog,
                                    [run |-> disk, index |-> StartIndex(disk, yes),
                                     after |-> exitc])
  /\ ci' = NoCI
  /\ UNCHANGED <<disk, retries>>
  /\ UNCHANGED <<dispatchVars, fileVars>>

\* for-loop body for 'INIT' ("Just move to SURF") and for an index with no
\* phase (phases[-1] is undefined: no case matches).
LoopBreak ==
  /\ pc = "loop"
  /\ PhaseAt(idx) \in {"INIT", "undefined"}
  /\ idx < Len(Phase5)
  /\ idx' = idx + 1
  /\ UNCHANGED <<disk, pc, autoYes, exitc, build, oink, ci, cmds, retries,
                 entry, ran, resumeLog>>
  /\ UNCHANGED <<dispatchVars, fileVars>>

\* The loop is over: the final summary is printed and the process returns.
LoopEnd ==
  /\ pc = "loop"
  /\ idx = Len(Phase5)
  /\ EndProcess("complete")
  /\ UNCHANGED <<disk, ci, cmds, retries, entry, ran, resumeLog>>
  /\ UNCHANGED <<dispatchVars, fileVars>>

\* "USER CHECKPOINT" after SURF and after PLAN.
Checkpoint(answer) ==
  /\ pc = "checkpoint"
  /\ IF AskYesNo(autoYes, answer)
       THEN /\ pc' = "loop"
            /\ idx' = idx + 1
            /\ UNCHANGED <<exitc, autoYes, build, oink>>
       ELSE EndProcess("paused")
  /\ UNCHANGED <<disk, ci, cmds, retries, entry, ran, resumeLog>>
  /\ UNCHANGED <<dispatchVars, fileVars>>

(***************************************************************************)
(* SURF: phases/surf.ts                                                    *)
(***************************************************************************)
MaxSurfers == 5
MinSurfers == 2
DefaultSurfers == 3

\* analyzeSurferNeeds / parseSurferFocuses: the number of focuses, from the
\* sizing call's success and the k numbered lines of its SURFER_FOCUSES block.
SurferCount(ok, k) ==
  IF ~ok THEN DefaultSurfers
  ELSE IF k > MaxSurfers THEN MaxSurfers
  ELSE IF k < MinSurfers THEN DefaultSurfers
  ELSE k

\* No sizing call was made.
NoSizing == [fn |-> "none", ok |-> FALSE, block |-> FALSE, lines |-> <<>>,
             count |-> 0]

\* A line of the block: "n. text" (focus), "n. " with blanks only (blank:
\* the regex matches and the trimmed focus is empty), anything else (other).
LineKinds == {"focus", "blank", "other"}

\* parseSurferFocuses / parsePerspectives / parseRatFocuses, up to the
\* limits: [] without the two markers, else one entry per line that matches
\* /^\d+\.\s*(.+)$/ with a focus that is not empty after trim().
ParsedEntries(block, lines) ==
  IF ~block THEN 0
  ELSE Cardinality({i \in 1..Len(lines) : lines[i] = "focus"})

RunSurfPhase(ok, k, res) ==
  /\ pc = "loop"
  /\ PhaseAt(idx) = "SURF"
  /\ res \in Outcomes(SurferCount(ok, k))
  /\ ran' = Append(ran, "SURF")
  /\ disk' = AddArtifacts(
               SetSurferFocuses(UpdatePhase(disk, "SURF"), SurferCount(ok, k)),
               "finding", res, 1)
  /\ IF AllSucceeded(res)
       THEN pc' = "checkpoint" /\ UNCHANGED <<exitc, idx, autoYes, build, oink>>
       ELSE EndProcess("phase_failed")
  /\ UNCHANGED <<ci, cmds, retries, entry, resumeLog>>
  /\ UNCHANGED <<dispatchVars, fileVars>>

(***************************************************************************)
(* PLAN: phases/plan.ts                                                    *)
(***************************************************************************)
MaxPlanners == 5
DefaultPlanners == 3
MaxRats == 3
MinRats == 2
DefaultRats == 3

\* analyzePlannerNeeds / parsePerspectives
PlannerCount(ok, k) ==
  IF ~ok THEN DefaultPlanners
  ELSE IF k > MaxPlanners THEN MaxPlanners
  ELSE IF k = 0 THEN DefaultPlanners
  ELSE k

\* analyzeRatNeeds / parseRatFocuses
RatCount(ok, k) ==
  IF ~ok THEN DefaultRats
  ELSE IF k > MaxRats THEN MaxRats
  ELSE IF k < MinRats THEN DefaultRats
  ELSE k

\* A faulty count that takes the Robot King's list as it comes.
CountAsListed(fn, ok, k) == IF ~ok \/ k = 0 THEN 3 ELSE k

\* focuses.length / perspectives.length: the number of units the phase makes.
UnitCount(fn, ok, k) ==
  CASE fn = "analyzeSurferNeeds" -> SurferCount(ok, k)
    [] fn = "analyzePlannerNeeds" -> PlannerCount(ok, k)
    [] OTHER -> RatCount(ok, k)

\* The sizing call of a phase returns: its success, whether its output holds the block,
\* the lines of the block, and the number of units the phase goes on with.
Analyze(fn, ok, block, lines) ==
  /\ sizing = NoSizing
  /\ sizing' = [fn |-> fn, ok |-> ok, block |-> block, lines |-> lines,
                count |-> UnitCount(fn, ok, ParsedEntries(block, lines))]
  /\ UNCHANGED <<file, loaded, arts, call, planOut, asked>>
  /\ UNCHANGED <<dispatchVars, machineVars>>

\* runRatPhase: critiques of the rats that succeeded; never fails the phase.
RunRatPhase(r, rok, rk, rres) ==
  AddArtifacts(SetRatFocuses(r, RatCount(rok, rk)), "critique", rres, 1)

\* A faulty reading of the rat stage: its critiques count only when every
\* rat succeeded.
RatsAllOrNothing(rres) == AllSucceeded(rres)

\* runRatPhase: "return { success: true, critiques: allCritiques }", with
\* failed rats or without.
RatSuccess(rres) == TRUE

\* critiquesText, by rat number: '' under --skip-rats, else allCritiques, one
\* section per rat that succeeded.
CritiquesText(skip, rres) ==
  IF skip THEN {}
  ELSE IF RatSuccess(rres) THEN {i \in 1..Len(rres) : rres[i]}
  ELSE {}

\* runPlanPhase on Run r: the Run it leaves, what it returns, how far it got
\* and the critiques handed to synthesizePlans.
PlanPhase(r, ok, k, res, skip, rok, rk, rres, synth) ==
  LET planned == AddArtifacts(
                   SetPlannerPerspectives(UpdatePhase(r, "PLAN"),
                                          PlannerCount(ok, k)),
                   "plan", res, 1)
      ratted == IF skip THEN planned ELSE RunRatPhase(planned, rok, rk, rres)
  IN  IF ~AllSucceeded(res)
        THEN [run |-> planned, success |-> FALSE, synthesis |-> "not_reached",
              critiques |-> {}]
      ELSE IF ~synth
        THEN [run |-> ratted, success |-> FALSE, synthesis |-> "failed",
              critiques |-> CritiquesText(skip, rres)]
      ELSE [run |-> SetFinalPlan(ratted), success |-> TRUE,
            synthesis |-> "done", critiques |-> CritiquesText(skip, rres)]

RunPlanPhase(ok, k, res, rok, rk, rres, synth) ==
  /\ pc = "loop"
  /\ PhaseAt(idx) = "PLAN"
  /\ res \in Outcomes(PlannerCount(ok, k))
  /\ rres \in Outcomes(RatCount(rok, rk))
  /\ ran' = Append(ran, "PLAN")
  /\ LET out == PlanPhase(disk, ok, k, res, FALSE, rok, rk, rres, synth)
     IN  /\ disk' = out.run
         /\ IF out.success
              THEN /\ pc' = "checkpoint"
                   /\ UNCHANGED <<exitc, idx, autoYes, build, oink>>
              ELSE EndProcess("phase_failed")
  /\ UNCHANGED <<ci, cmds, retries, entry, resumeLog>>
  /\ UNCHANGED <<dispatchVars, fileVars>>

NoPlanOut == [fn |-> "none"]

\* One call of runPlanPhase, with phaseOptions.skipRats or without, on a Run
\* that has no plans yet.
CallPlanPhase(ok, k, res, skip, rok, rk, rres, synth) ==
  /\ Exists(disk)
  /\ disk.plans = <<>>
  /\ res \in Outcomes(PlannerCount(ok, k))
  /\ rres \in Outcomes(RatCount(rok, rk))
  /\ planOut' = [fn |-> "runPlanPhase", res |-> res, skip |-> skip,
                 rok |-> rok, rres |-> rres, synth |-> synth,
                 out |-> PlanPhase(disk, ok, k, res, skip, rok, rk, rres, synth)]
  /\ disk' = PlanPhase(disk, ok, k, res, skip, rok, rk, rres, synth).run
  /\ UNCHANGED <<file, loaded, arts, call, sizing, asked>>
  /\ UNCHANGED <<pc, idx, autoYes, exitc, build, oink, ci, cmds, retries,
                 entry, ran, resumeLog>>
  /\ UNCHANGED dispatchVars


(***************************************************************************)
(* BUILD: runBuildPhase (the dependency scheduler)                         *)
(***************************************************************************)
\* The task lists extractTasksFromPlan can return: up to n tasks, each with
\* an id and a set of blocking ids (id k stands for "task-k").
TaskLists(n, ids) ==
  UNION {[1..m -> [id : ids, deps : SUBSET ids]] : m \in 0..n}

\* "No implementation tasks extracted. Treating as single task."
SingleTask == <<[id |-> 1, deps |-> {}]>>

\* extractTasksFromPlan and the fallback: [] when the unit fails.
ExtractedTasks(ok, list) == IF ok /\ list # <<>> THEN list ELSE SingleTask

\* "Create task records": addTask per task, in order.
RECURSIVE AddTasks(_, _, _)
AddTasks(r, tasks, i) ==
  IF i > Len(tasks) THEN r
  ELSE AddTasks(AddTask(r, "pending", tasks[i].deps), tasks, i + 1)

IsIndependent(t) == t.deps = {}
IsDependent(t) == t.deps # {}
IndependentTasks(tasks) == SelectSeq(tasks, IsIndependent)
DependentTasks(tasks) == SelectSeq(tasks, IsDependent)

\* The place in tasks of the i-th independent / dependent task.
IndependentAt(tasks, i) ==
  CHOOSE p \in 1..Len(tasks) :
    /\ IsIndependent(tasks[p])
    /\ Cardinality({q \in 1..p : IsIndependent(tasks[q])}) = i
DependentAt(tasks, i) ==
  CHOOSE p \in 1..Len(tasks) :
    /\ IsDependent(tasks[p])
    /\ Cardinality({q \in 1..p : IsDependent(tasks[q])}) = i

\* A faulty scheduler that runs the unit of a task twice.
DispatchTwice(log, p) == Append(Append(log, p), p)

\* runAgent(dawg, ...) for the task at place p: one more unit in the log of
\* the units the pass ran.
Dispatch(log, p) == Append(log, p)

\* independentTasks.map(...): one unit per independent task, in order.
RECURSIVE DispatchAll(_, _, _, _)
DispatchAll(tasks, n, i, log) ==
  IF i > n THEN log
  ELSE DispatchAll(tasks, n, i + 1, Dispatch(log, IndependentAt(tasks, i)))

\* The text pieces a prompt is built from, each a pair <<source, number>>.
Piece(source, n) == <<source, n>>

\* buildDawgPrompt(description, plan, taskDescription)
BuildDawgPrompt(description, plan, task) ==
  {Piece("description", description), Piece("plan", plan), Piece("task", task)}

\* results.forEach of the independent batch: updateTask per result, in input
\* order; updateTask throws "Task ... not found" for an id with no record.
RECURSIVE ApplyResults(_, _, _, _, _)
ApplyResults(r, tasks, res, i, failed) ==
  IF i > Len(tasks) THEN [run |-> r, threw |-> FALSE, failed |-> failed]
  ELSE IF TaskIndex(r, tasks[i].id) = 0
    THEN [run |-> r, threw |-> TRUE, failed |-> failed]
  ELSE ApplyResults(
         UpdateTask(r, tasks[i].id, IF res[i] THEN "completed" ELSE "failed"),
         tasks, res, i + 1,
         IF res[i] THEN failed ELSE Append(failed, tasks[i].id))

\* A faulty check that never finds the blockers of a dependent task met.
NoDepsMet(r, task) == task.deps = {}

\* deps = tasks.filter(t => task.dependencies.includes(t.id));
\* allDepsMet = deps.every(d => d.status === 'completed')
AllDepsMet(r, task) ==
  \A k \in 1..Len(r.tasks) :
    r.tasks[k].id \in task.deps => r.tasks[k].status = "completed"

\* runBuildPhase up to the task records: updatePhase, getFinalPlan (throws
\* without a final plan), extractTasksFromPlan, addTask per task.
BuildStart(ok, list) ==
  /\ pc = "loop"
  /\ PhaseAt(idx) = "BUILD"
  /\ ran' = Append(ran, "BUILD")
  /\ IF disk.finalPlan = <<>>
       THEN /\ disk' = UpdatePhase(disk, "BUILD")
            /\ EndProcess("crashed")
       ELSE /\ disk' = AddTasks(UpdatePhase(disk, "BUILD"), ExtractedTasks(ok, list), 1)
            /\ build' = [tasks |-> ExtractedTasks(ok, list),
                         pos |-> 1,
                         failed |-> <<>>,
                         ran |-> {},
                         ok |-> {},
                         prompt |-> {},
                         first |-> Len(disk.tasks),
                         log |-> <<>>]
            /\ pc' = "build_indep"
            /\ UNCHANGED <<exitc, idx, autoYes, oink>>
  /\ UNCHANGED <<ci, cmds, retries, entry, resumeLog>>
  /\ UNCHANGED <<dispatchVars, fileVars>>

\* "Run independent tasks in parallel" and record each result.
BuildIndependent(res) ==
  /\ pc = "build_indep"
  /\ LET indep == IndependentTasks(build.tasks)
         out == ApplyResults(disk, indep, res, 1, <<>>)
     IN  /\ res \in Outcomes(Len(indep))
         /\ disk' = out.run
         /\ IF out.threw
              THEN EndProcess("crashed")
              ELSE /\ pc' = "build_dep"
                   /\ build' = [build EXCEPT
                        !.failed = out.failed,
                        !.ran = {IndependentAt(build.tasks, i) : i \in 1..Len(indep)},
                        !.ok = {IndependentAt(build.tasks, i) :
                                  i \in {j \in 1..Len(indep) : res[j]}},
                        !.prompt = IF indep = <<>> THEN @
                                   ELSE BuildDawgPrompt(0, 0, indep[Len(indep)].id),
                        !.log = DispatchAll(build.tasks, Len(indep), 1, @)]
                   /\ UNCHANGED <<exitc, idx, autoYes, oink>>
  /\ UNCHANGED <<ci, cmds, retries, entry, ran, resumeLog>>
  /\ UNCHANGED <<dispatchVars, fileVars>>

\* One iteration of "Run dependent tasks sequentially".
BuildDependent(ok) ==
  /\ pc = "build_dep"
  /\ build.pos <= Len(DependentTasks(build.tasks))
  /\ LET task == DependentTasks(build.tasks)[build.pos]
         met == AllDepsMet(disk, task)
         status == IF ~met THEN "blocked" ELSE IF ok THEN "completed" ELSE "failed"
         found == TaskIndex(disk, task.id) # 0
     IN  IF found
           THEN /\ disk' = UpdateTask(disk, task.id, status)
                /\ build' = [build EXCEPT
                        !.pos = @ + 1,
                        !.failed = IF status = "failed" THEN Append(@, task.id) ELSE @,
                        !.ran = IF met THEN @ \cup {DependentAt(build.tasks, build.pos)}
                                ELSE @,
                        !.ok = IF met /\ ok THEN @ \cup {DependentAt(build.tasks, build.pos)}
                               ELSE @,
                        !.prompt = IF met THEN BuildDawgPrompt(0, 0, task.id) ELSE @,
                        !.log = IF met THEN Dispatch(@, DependentAt(build.tasks, build.pos))
                                ELSE @]
                /\ UNCHANGED <<pc, exitc, idx, autoYes, oink>>
           ELSE /\ EndProcess("crashed")
                /\ UNCHANGED disk
  /\ UNCHANGED <<ci, cmds, retries, entry, ran, resumeLog>>
  /\ UNCHANGED <<dispatchVars, fileVars>>

\* The places in tasks of the tasks the pass skipped as blocked: the dependent
\* tasks already handled that were not dispatched.
BlockedTasks(b) ==
  {DependentAt(b.tasks, i) : i \in 1..(b.pos - 1)} \ b.ran

\* A faulty report that counts a blocked task as a failure.
BuildFailedOrBlocked(b) == b.failed # <<>> \/ BlockedTasks(b) # {}

\* failedTasks.length > 0
BuildFailed(b) == b.failed # <<>>

\* runBuildPhase returns; runFromPhase goes on to OINK unless a task failed.
BuildReturn ==
  /\ pc = "build_dep"
  /\ build.pos > Len(DependentTasks(build.tasks))
  /\ IF BuildFailed(build)
       THEN EndProcess("phase_failed")
       ELSE /\ pc' = "loop"
            /\ idx' = idx + 1
            /\ UNCHANGED <<exitc, autoYes, build, oink>>
  /\ UNCHANGED <<disk, ci, cmds, retries, entry, ran, resumeLog>>
  /\ UNCHANGED <<dispatchVars, fileVars>>

(***************************************************************************)
(* OINK: runOinkPhase                                                      *)
(***************************************************************************)
\* PIG_CHECK_TYPES.length
PigChecks == 3

\* What parseVerdict looks at in a verifier's output: an explicit pass marker
\* ("VERDICT: PASS", "# PASS"), an explicit fail marker, and the words PASS
\* and FAIL in the first ten lines.
Outputs == [vpass : BOOLEAN, vfail : BOOLEAN, pass10 : BOOLEAN, fail10 : BOOLEAN]

ParseVerdict(o) ==
  IF o.vpass THEN TRUE
  ELSE IF o.vfail THEN FALSE
  ELSE IF o.pass10 /\ ~o.fail10 THEN TRUE
  ELSE IF o.fail10 THEN FALSE
  ELSE TRUE

\* Outputs with an explicit marker of one kind, or with none at all.
PlainOutputs ==
  {o \in Outputs : o.pass10 = o.vpass /\ o.fail10 = o.vfail /\ ~(o.vpass /\ o.vfail)}

\* verdicts: parseVerdict(result.output) per verifier, in input order.
Verdicts(outs) == [i \in 1..PigChecks |-> ParseVerdict(outs[i])]

\* A faulty feedback that joins the outputs of all verifiers.
FeedbackOfAll(outs) == {Piece("pig", i) : i \in 1..PigChecks}

\* failures.map(f => `## ${f.pig}\n\n${f.feedback}`): the outputs of the
\* verifiers whose verdict is fail.
Feedback(outs) == {Piece("pig", i) : i \in {j \in 1..PigChecks : ~ParseVerdict(outs[j])}}

\* runOinkPhase, and runFromPhase's handling of its result.  lint is "error"
\* when the lint unit fails, else "ran".
RunOinkPhase(lint, res, outs) ==
  /\ pc = "loop"
  /\ PhaseAt(idx) = "OINK"
  /\ ran' = Append(ran, "OINK")
  /\ LET entered == UpdatePhase(disk, "OINK")
         linted == IF lint = "ran" THEN AddReview(entered, 0) ELSE entered
         reviewed == AddArtifacts(linted, "review", res, 1)
         allPassed == \A i \in 1..PigChecks : ParseVerdict(outs[i])
     IN  IF disk.finalPlan = <<>>
           THEN /\ disk' = entered
                /\ EndProcess("crashed")
         ELSE IF ~AllSucceeded(res)
           THEN /\ disk' = reviewed
                /\ EndProcess("phase_failed")
         ELSE IF allPassed
           THEN /\ disk' = UpdatePhase(UpdatePhase(reviewed, "DONE"), "DONE")
                /\ oink' = [success |-> TRUE, passed |-> TRUE, feedback |-> {},
                            verdicts |-> Verdicts(outs), outs |-> <<>>]
                /\ pc' = "loop"
                /\ idx' = idx + 1
                /\ UNCHANGED <<exitc, autoYes, build>>
         ELSE /\ disk' = reviewed
              /\ oink' = [success |-> TRUE, passed |-> FALSE, feedback |-> Feedback(outs),
                          verdicts |-> Verdicts(outs), outs |-> <<>>]
              /\ pc' = "oink_prompt"
              /\ UNCHANGED <<exitc, idx, autoYes, build>>
  /\ UNCHANGED <<ci, cmds, retries, entry, resumeLog>>
  /\ UNCHANGED <<dispatchVars, fileVars>>

\* "Return to BUILD phase with feedback?"
OinkRetry(answer) ==
  /\ pc = "oink_prompt"
  /\ IF AskYesNo(autoYes, answer)
       THEN /\ disk' = UpdatePhase(disk, "BUILD")
            /\ idx' = IndexOf("BUILD")
            /\ pc' = "loop"
            /\ retries' = retries + 1
            /\ UNCHANGED <<exitc, autoYes, build, oink>>
       ELSE /\ EndProcess("paused")
            /\ UNCHANGED <<disk, retries>>
  /\ UNCHANGED <<ci, cmds, entry, ran, resumeLog>>
  /\ UNCHANGED <<dispatchVars, fileVars>>

(***************************************************************************)
(* PR and CI_CHECK: runPRPhase, runCICheckPhase (exported by phases/index)  *)
(***************************************************************************)
\* A faulty limit that allows one more fix cycle.
MaxCIAttemptsLoose == 3 + 1

MAX_CI_ATTEMPTS == 3

\* state.ciCheckAttempts || 0
Attempts(r) == IF r.ciCheckAttempts = <<>> THEN 0 ELSE r.ciCheckAttempts[1]

\* What a phase function returned, with what it did on the way.
PhaseResult(fn, success, ciPassed, needsRetry, queries, fixes, red, dirty, before, checks) ==
  [fn |-> fn, success |-> success, ciPassed |-> ciPassed, needsRetry |-> needsRetry,
   queries |-> queries, fixes |-> fixes, red |-> red, dirty |-> dirty,
   before |-> before, checks |-> checks, raw |-> <<>>]

\* A faulty PR phase that resets the attempt counter when it starts.
RunPRPhaseCounting(r, pushOK, kingOK, createOK, num) ==
  [run |-> [UpdatePhase(r, "PR") EXCEPT !.ciCheckAttempts = <<0>>],
   result |-> PhaseResult("pr", pushOK /\ kingOK /\ createOK, FALSE, FALSE, 0, 0,
                          FALSE, FALSE, Attempts(r), "none")]

\* runPRPhase on the Run r.  `state` is loaded once at entry; updatePhase
\* writes the phase to the file, and each later saveState(state) writes the
\* object loaded at entry, changed fields included and nothing else.
RunPRPhase(r, pushOK, kingOK, createOK, num) ==
  LET entered == UpdatePhase(r, "PR")
      pushed == [r EXCEPT !.branchName = <<"current">>]
      created == [pushed EXCEPT !.prUrl = <<"url">>,
                                !.prNumber = num,
                                !.ciCheckAttempts = <<0>>]
      Failure == PhaseResult("pr", FALSE, FALSE, FALSE, 0, 0, FALSE, FALSE,
                             Attempts(r), "none")
      Success == PhaseResult("pr", TRUE, FALSE, FALSE, 0, 0, FALSE, FALSE,
                             Attempts(r), "none")
  IN  IF ~pushOK THEN [run |-> entered, result |-> Failure]
      ELSE IF ~kingOK \/ ~createOK THEN [run |-> pushed, result |-> Failure]
      ELSE [run |-> created, result |-> Success]

\* A faulty fix cycle that does not count the attempt.
NextAttemptSame(a) == a

\* state.ciCheckAttempts = attempts + 1
NextAttempt(a) == a + 1

\* checkCIStatus: the status read from the checks the command lists; the
\* catch block answers 'pending' when the command or JSON.parse throws.
CheckCIStatus(o) == IF o = "error" THEN "pending" ELSE o

\* checkCIStatus is called once, and once more when the first answer is
\* 'pending'; q1 and q2 are the two answers.
FinalStatus(q1, q2) == IF q1 = "pending" THEN q2 ELSE q1
Queries(q1) == IF q1 = "pending" THEN 2 ELSE 1

\* A faulty phase that reports checks still pending as a failure.
PendingIsFailure == [success |-> FALSE, ciPassed |-> FALSE, needsRetry |-> FALSE]

\* "CI still running. Will check again on resume."
StillPending == [success |-> TRUE, ciPassed |-> FALSE, needsRetry |-> TRUE]

\* runCICheckPhase on the Run r.  fixOK: the fix unit succeeds; gitOK: no git
\* command of the commit block throws; dirty: the fix changed the tree.
RunCICheckPhase(r, q1, q2, fixOK, gitOK, dirty) ==
  LET attempts == Attempts(r)
      entered == UpdatePhase(r, "CI_CHECK")
      status == FinalStatus(q1, q2)
      counted == [r EXCEPT !.ciCheckAttempts = <<NextAttempt(attempts)>>]
      Ret(run, success, ciPassed, needsRetry, queries, fixes, red) ==
        [run |-> run,
         result |-> PhaseResult("ci", success, ciPassed, needsRetry, queries,
                                fixes, red, red /\ dirty, attempts, status)]
  IN  IF r.prNumber = <<>> THEN Ret(r, FALSE, FALSE, FALSE, 0, 0, FALSE)
      ELSE IF attempts >= MAX_CI_ATTEMPTS
        THEN Ret(entered, TRUE, FALSE, FALSE, 0, 0, FALSE)
      ELSE IF status = "success"
        THEN Ret(entered, TRUE, TRUE, FALSE, Queries(q1), 0, FALSE)
      ELSE IF status = "pending"
        THEN Ret(entered, StillPending.success, StillPending.ciPassed,
                 StillPending.needsRetry, Queries(q1), 0, FALSE)
      ELSE IF ~fixOK \/ ~gitOK
        THEN Ret(entered, FALSE, FALSE, FALSE, Queries(q1), 1, TRUE)
      ELSE Ret(counted, TRUE, FALSE, TRUE, Queries(q1), 1, TRUE)

\* The caller of runCICheckPhase: a result that is a success and needs no
\* retry ends the run (checks green, or the attempts are used up).
AfterCICheck(r, result) ==
  IF result.fn = "ci" /\ result.success /\ ~result.needsRetry
    THEN UpdatePhase(r, "DONE")
    ELSE r

\* A call of runPRPhase on the persisted Run.
CallPRPhase(pushOK, kingOK, createOK, num) ==
  /\ pc = "idle"
  /\ Exists(disk)
  /\ cmds' = cmds + 1
  /\ disk' = RunPRPhase(disk, pushOK, kingOK, createOK, num).run
  /\ ci' = RunPRPhase(disk, pushOK, kingOK, createOK, num).result
  /\ UNCHANGED <<pc, idx, autoYes, exitc, build, oink, retries, entry, ran, resumeLog>>
  /\ UNCHANGED <<dispatchVars, fileVars>>

\* A call of runCICheckPhase on the persisted Run, and its caller's step.
\* o1, o2: how the first and the second `gh pr checks` command end; the
\* result keeps those of the commands that were made.
CallCICheckPhase(o1, o2, fixOK, gitOK, dirty) ==
  /\ pc = "idle"
  /\ Exists(disk)
  /\ cmds' = cmds + 1
  /\ LET out == RunCICheckPhase(disk, CheckCIStatus(o1), CheckCIStatus(o2),
                                fixOK, gitOK, dirty)
     IN  /\ disk' = AfterCICheck(out.run, out.result)
         /\ ci' = [out.result EXCEPT
                     !.raw = SubSeq(<<o1, o2>>, 1, out.result.queries)]
  /\ UNCHANGED <<pc, idx, autoYes, exitc, build, oink, retries, entry, ran, resumeLog>>
  /\ UNCHANGED <<dispatchVars, fileVars>>

NoAsked == [stage |-> "none", fn |-> "none", res |-> <<>>, outs |-> <<>>,
            questions |-> <<>>, shown |-> <<>>]

\* What a unit's output holds: no marker (plain), 'QUESTION: text',
\* 'Need clarification: text', a marker with nothing after it (bare), or a
\* marker in other letter case (lowercase).
OutputKinds == {"plain", "question", "clarification", "bare", "lowercase"}

\* result.output.includes('QUESTION:') || includes('Need clarification:')
IncludesMarker(o) == o \in {"question", "clarification", "bare"}

\* output.match(/(?:QUESTION:|Need clarification:)\s*(.+?)(?:\n|$)/i)
QuestionMatch(o) == o \in {"question", "clarification", "lowercase"}

\* results.forEach: questions.push for each successful unit whose output
\* includes a marker and matches, in input order.
RECURSIVE CollectQuestions(_, _, _)
CollectQuestions(res, outs, i) ==
  IF i > Len(res) THEN <<>>
  ELSE (IF res[i] /\ IncludesMarker(outs[i]) /\ QuestionMatch(outs[i])
          THEN <<i>> ELSE <<>>)
       \o CollectQuestions(res, outs, i + 1)

MachineIdle ==
  /\ disk = NoRun
  /\ pc = "idle"
  /\ idx = 0
  /\ autoYes = FALSE
  /\ exitc = "none"
  /\ build = NoBuild
  /\ oink = NoOink
  /\ ci = NoCI
  /\ cmds = 0
  /\ retries = 0
  /\ entry = NoEntry
  /\ ran = <<>>
  /\ resumeLog = <<>>
  /\ file = NoFile
  /\ loaded = NotLoaded
  /\ arts = {}
  /\ call = NoCall
  /\ sizing = NoSizing
  /\ planOut = NoPlanOut
  /\ asked = NoAsked

DispatchInit ==
  /\ dStatus = "idle"
  /\ dN = 0
  /\ dProc = <<>>
  /\ dPromise = <<>>
  /\ dValues = <<>>
  /\ dResults = <<>>
  /\ dOrder = <<>>
  /\ dEvents = <<>>
  /\ MachineIdle

DispatchNext ==
  \/ \E n \in 0..MaxBatch, m \in 0..MaxBatch : DCall(n, m)
  \/ \E i \in 1..MaxBatch : DSpawnError(i)
  \/ \E i \in 1..MaxBatch, code \in {0, 1} : DClose(i, code)
  \/ DJoin

SpecDispatch == DispatchInit /\ [][DispatchNext]_vars

(***************************************************************************)
(* Spec: the CLI commands, the phase loop and the phase functions          *)
(***************************************************************************)
Init == DispatchInit

\* The inputs Spec draws.  Sizing calls: one that lists MaxSizing entries.
\* Batches: all units succeed, or the first unit alone fails; in SURF also:
\* all units fail.  Verifier outputs: explicit markers.
Sizings == {[ok |-> TRUE, k |-> MaxSizing]}
OneFailure(n, j) == [i \in 1..n |-> i # j]
FewOutcomes(n) == {o \in Outcomes(n) : o = OneFailure(n, 0) \/ o = OneFailure(n, 1)}
SurfOutcomes(n) == FewOutcomes(n) \cup {[i \in 1..n |-> FALSE]}
PassOutput == [vpass |-> TRUE, vfail |-> FALSE, pass10 |-> TRUE, fail10 |-> FALSE]
FailOutput == [vpass |-> FALSE, vfail |-> TRUE, pass10 |-> FALSE, fail10 |-> TRUE]
FewOutputs == {[i \in 1..PigChecks |-> IF v[i] THEN PassOutput ELSE FailOutput] :
                 v \in FewOutcomes(PigChecks)}
StatusAnswers == {"success", "failure", "pending"}
\* How a `gh pr checks` command ends: with checks of one of the three
\* statuses, or with an error.
CheckOutcomes == StatusAnswers \cup {"error"}

Next ==
  \/ \E yes \in BOOLEAN : cmds < MaxCommands /\ Start(yes, <<>>)
  \/ \E yes \in BOOLEAN : cmds < MaxCommands /\ Resume(yes)
  \/ LoopBreak
  \/ LoopEnd
  \/ \E answer \in BOOLEAN : Checkpoint(answer)
  \/ \E z \in Sizings :
       \E res \in SurfOutcomes(SurferCount(z.ok, z.k)) : RunSurfPhase(z.ok, z.k, res)
  \/ \E z \in Sizings, synth \in BOOLEAN :
       \E res \in FewOutcomes(PlannerCount(z.ok, z.k)),
          rres \in FewOutcomes(RatCount(z.ok, z.k)) :
         RunPlanPhase(z.ok, z.k, res, z.ok, z.k, rres, synth)
  \/ /\ pc = "loop"
     /\ \E ok \in BOOLEAN, list \in TaskLists(MaxTasks, 1..MaxId) : BuildStart(ok, list)
  \/ /\ pc = "build_indep"
     /\ \E res \in Outcomes(Len(IndependentTasks(build.tasks))) : BuildIndependent(res)
  \/ \E ok \in BOOLEAN : BuildDependent(ok)
  \/ BuildReturn
  \/ \E lint \in {"error", "ran"}, res \in FewOutcomes(PigChecks),
        outs \in FewOutputs : RunOinkPhase(lint, res, outs)
  \/ \E answer \in BOOLEAN : retries < MaxRetries /\ OinkRetry(answer)
  \/ \E pushOK \in BOOLEAN, kingOK \in BOOLEAN, createOK \in BOOLEAN,
        num \in {<<>>, <<1>>} :
       cmds < MaxCommands /\ CallPRPhase(pushOK, kingOK, createOK, num)
  \/ \E q1 \in StatusAnswers, q2 \in StatusAnswers,
        fixOK \in BOOLEAN, gitOK \in BOOLEAN, dirty \in BOOLEAN :
       cmds < MaxCommands /\ CallCICheckPhase(q1, q2, fixOK, gitOK, dirty)

Spec == Init /\ [][Next]_vars

(***************************************************************************)
(* SpecCI: the PR and CI_CHECK phases on a run that passed OINK            *)
(***************************************************************************)
AllOK(n) == [i \in 1..n |-> TRUE]

\* The Run of a `start` whose SURF, PLAN, BUILD (one task) and OINK all
\* succeeded.
SurfedRun ==
  AddArtifacts(SetSurferFocuses(UpdatePhase(FreshRun(<<>>), "SURF"),
                                SurferCount(TRUE, MaxSizing)),
               "finding", AllOK(SurferCount(TRUE, MaxSizing)), 1)
PlannedRun ==
  SetFinalPlan(RunRatPhase(
    AddArtifacts(SetPlannerPerspectives(UpdatePhase(SurfedRun, "PLAN"),
                                        PlannerCount(TRUE, MaxSizing)),
                 "plan", AllOK(PlannerCount(TRUE, MaxSizing)), 1),
    TRUE, MaxSizing, AllOK(RatCount(TRUE, MaxSizing))))
BuiltRun ==
  UpdateTask(AddTasks(UpdatePhase(PlannedRun, "BUILD"), SingleTask, 1), 1, "completed")
VerifiedRun ==
  UpdatePhase(AddArtifacts(AddReview(UpdatePhase(BuiltRun, "OINK"), 0),
                           "review", AllOK(PigChecks), 1),
              "DONE")

CIInit ==
  /\ dStatus = "idle"
  /\ dN = 0
  /\ dProc = <<>>
  /\ dPromise = <<>>
  /\ dValues = <<>>
  /\ dResults = <<>>
  /\ dOrder = <<>>
  /\ dEvents = <<>>
  /\ disk = VerifiedRun
  /\ pc = "idle"
  /\ idx = 0
  /\ autoYes = FALSE
  /\ exitc = "complete"
  /\ build = NoBuild
  /\ oink = NoOink
  /\ ci = NoCI
  /\ cmds = 1
  /\ retries = 0
  /\ entry = [cmd |-> "start", phase |-> "INIT"]
  /\ ran = <<"SURF", "PLAN", "BUILD", "OINK">>
  /\ resumeLog = <<>>
  /\ file = NoFile
  /\ loaded = NotLoaded
  /\ arts = {}
  /\ call = NoCall
  /\ sizing = NoSizing
  /\ planOut = NoPlanOut
  /\ asked = NoAsked

CINext ==
  \/ \E pushOK \in BOOLEAN, kingOK \in BOOLEAN, createOK \in BOOLEAN,
        num \in {<<>>, <<1>>} :
       cmds < MaxCalls /\ CallPRPhase(pushOK, kingOK, createOK, num)
  \/ \E o1 \in CheckOutcomes, o2 \in CheckOutcomes,
        fixOK \in BOOLEAN, gitOK \in BOOLEAN, dirty \in BOOLEAN :
       cmds < MaxCalls /\ CallCICheckPhase(o1, o2, fixOK, gitOK, dirty)

SpecCI == CIInit /\ [][CINext]_vars

(***************************************************************************)
(* SpecBuild: one pass of runBuildPhase over every small task list         *)
(***************************************************************************)
\* `start --yes` has run SURF and PLAN and enters BUILD.
BuildInit ==
  /\ dStatus = "idle"
  /\ dN = 0
  /\ dProc = <<>>
  /\ dPromise = <<>>
  /\ dValues = <<>>
  /\ dResults = <<>>
  /\ dOrder = <<>>
  /\ dEvents = <<>>
  /\ disk = PlannedRun
  /\ pc = "loop"
  /\ idx = IndexOf("BUILD")
  /\ autoYes = TRUE
  /\ exitc = "running"
  /\ build = NoBuild
  /\ oink = NoOink
  /\ ci = NoCI
  /\ cmds = 1
  /\ retries = 0
  /\ entry = [cmd |-> "start", phase |-> "INIT"]
  /\ ran = <<"SURF", "PLAN">>
  /\ resumeLog = <<>>
  /\ file = NoFile
  /\ loaded = NotLoaded
  /\ arts = {}
  /\ call = NoCall
  /\ sizing = NoSizing
  /\ planOut = NoPlanOut
  /\ asked = NoAsked

\* Task lists of three: the example of the extraction prompt (two independent
\* tasks and one that depends on both), a chain, and a task that depends on
\* one declared after it.
PlanExamples ==
  {<<[id |-> 1, deps |-> {}], [id |-> 2, deps |-> {}], [id |-> 3, deps |-> {1, 2}]>>,
   <<[id |-> 1, deps |-> {}], [id |-> 2, deps |-> {1}], [id |-> 3, deps |-> {2}]>>,
   <<[id |-> 1, deps |-> {}], [id |-> 2, deps |-> {3}], [id |-> 3, deps |-> {1}]>>}

BuildNext ==
  \/ /\ pc = "loop"
     /\ \E ok \in BOOLEAN, list \in TaskLists(BuildTasks, 1..BuildIds) \cup PlanExamples :
          BuildStart(ok, list)
  \/ /\ pc = "build_indep"
     /\ \E res \in Outcomes(Len(IndependentTasks(build.tasks))) : BuildIndependent(res)
  \/ \E ok \in BOOLEAN : BuildDependent(ok)
  \/ BuildReturn

SpecBuild == BuildInit /\ [][BuildNext]_vars

(***************************************************************************)
(* SpecOink: runOinkPhase over every verifier output, and the way back to   *)
(* BUILD                                                                   *)
(***************************************************************************)
\* `start` (with or without --yes) has run SURF, PLAN and a BUILD pass whose
\* single task completed, and enters OINK.
OinkInit ==
  /\ dStatus = "idle"
  /\ dN = 0
  /\ dProc = <<>>
  /\ dPromise = <<>>
  /\ dValues = <<>>
  /\ dResults = <<>>
  /\ dOrder = <<>>
  /\ dEvents = <<>>
  /\ disk = BuiltRun
  /\ pc = "loop"
  /\ idx = IndexOf("OINK")
  /\ autoYes \in BOOLEAN
  /\ exitc = "running"
  /\ build = [tasks |-> SingleTask, pos |-> 1, failed |-> <<>>, ran |-> {1},
              ok |-> {1}, prompt |-> BuildDawgPrompt(0, 0, 1), first |-> 0,
              log |-> <<1>>]
  /\ oink = NoOink
  /\ ci = NoCI
  /\ cmds = 1
  /\ retries = 0
  /\ entry = [cmd |-> "start", phase |-> "INIT"]
  /\ ran = <<"SURF", "PLAN", "BUILD">>
  /\ resumeLog = <<>>
  /\ file = NoFile
  /\ loaded = NotLoaded
  /\ arts = {}
  /\ call = NoCall
  /\ sizing = NoSizing
  /\ planOut = NoPlanOut
  /\ asked = NoAsked

OinkNext ==
  \/ /\ pc = "loop"
     /\ PhaseAt(idx) = "OINK"
     /\ \E lint \in {"error", "ran"}, res \in FewOutcomes(PigChecks),
           outs \in [1..PigChecks -> Outputs] : RunOinkPhase(lint, res, outs)
  \/ \E answer \in BOOLEAN : retries < MaxRetries /\ OinkRetry(answer)
  \/ /\ pc = "loop"
     /\ \E ok \in BOOLEAN, list \in TaskLists(MaxTasks, 1..MaxId) : BuildStart(ok, list)
  \/ /\ pc = "build_indep"
     /\ \E res \in Outcomes(Len(IndependentTasks(build.tasks))) : BuildIndependent(res)
  \/ \E ok \in BOOLEAN : BuildDependent(ok)
  \/ BuildReturn
  \/ LoopEnd

SpecOink == OinkInit /\ [][OinkNext]_vars

(***************************************************************************)
(* SpecBatch: one process from `start` on, each phase's batch dispatched     *)
(* through runAgentsInParallel and its results taken from the join           *)
(***************************************************************************)
\* The number of units the phase function dispatches as one batch at the
\* process's position: surfers, planners, the independent tasks, verifiers.
BatchSize ==
  IF pc = "build_indep" THEN Len(IndependentTasks(build.tasks))
  ELSE IF pc = "loop" /\ PhaseAt(idx) = "SURF" THEN SurferCount(TRUE, MaxSizing)
  ELSE IF pc = "loop" /\ PhaseAt(idx) = "PLAN" THEN PlannerCount(TRUE, MaxSizing)
  ELSE IF pc = "loop" /\ PhaseAt(idx) = "OINK" THEN PigChecks
  ELSE 0

\* A faulty phase that reads the results without awaiting the join.
JoinedEarly == dStatus \in {"awaiting", "returned"}

\* const results = await runAgentsInParallel(...): the call has returned.
Joined == dStatus = "returned"

\* results[i].success, from the value array of the join.
JoinedOutcomes ==
  [i \in 1..dN |-> dValues[i].kind = "resolved" /\ dValues[i].value.success]

\* The phase function goes on after the call: the call's promises are gone.
DRelease ==
  /\ dStatus = "returned"
  /\ BatchSize = 0
  /\ dStatus' = "idle"
  /\ dN' = 0
  /\ dProc' = <<>>
  /\ dPromise' = <<>>
  /\ dValues' = <<>>
  /\ dResults' = <<>>
  /\ dOrder' = <<>>
  /\ dEvents' = <<>>
  /\ UNCHANGED <<machineVars, fileVars>>

BatchInit ==
  /\ dStatus = "idle"
  /\ dN = 0
  /\ dProc = <<>>
  /\ dPromise = <<>>
  /\ dValues = <<>>
  /\ dResults = <<>>
  /\ dOrder = <<>>
  /\ dEvents = <<>>
  /\ disk = FreshRun(<<>>)
  /\ pc = "loop"
  /\ idx = IndexOf("INIT")
  /\ autoYes \in BOOLEAN
  /\ exitc = "running"
  /\ build = NoBuild
  /\ oink = NoOink
  /\ ci = NoCI
  /\ cmds = 1
  /\ retries = 0
  /\ entry = [cmd |-> "start", phase |-> "INIT"]
  /\ ran = <<>>
  /\ resumeLog = <<>>
  /\ file = NoFile
  /\ loaded = NotLoaded
  /\ arts = {}
  /\ call = NoCall
  /\ sizing = NoSizing
  /\ planOut = NoPlanOut
  /\ asked = NoAsked

BatchNext ==
  \/ /\ dStatus = "idle"
     /\ BatchSize > 0
     /\ DCall(BatchSize, BatchSize)
  \/ \E i \in 1..MaxBatch : DSpawnError(i)
  \/ \E i \in 1..MaxBatch, code \in {0, 1} : DClose(i, code)
  \/ DJoin
  \/ /\ Joined
     /\ RunSurfPhase(TRUE, MaxSizing, JoinedOutcomes)
  \/ /\ Joined
     /\ \E synth \in BOOLEAN, rres \in FewOutcomes(RatCount(TRUE, MaxSizing)) :
          RunPlanPhase(TRUE, MaxSizing, JoinedOutcomes, TRUE, MaxSizing, rres, synth)
  \/ /\ Joined
     /\ BatchSize > 0
     /\ BuildIndependent(JoinedOutcomes)
  \/ /\ Joined
     /\ \E lint \in {"error", "ran"}, outs \in FewOutputs :
          RunOinkPhase(lint, JoinedOutcomes, outs)
  \/ DRelease
  \/ /\ dStatus = "idle"
     /\ \/ LoopBreak
        \/ LoopEnd
        \/ \E answer \in BOOLEAN : Checkpoint(answer)
        \/ /\ pc = "loop"
           /\ \E list \in TaskLists(MaxTasks, 1..MaxId) : BuildStart(TRUE, list)
        \/ /\ pc = "build_indep"
           /\ BatchSize = 0
           /\ BuildIndependent(<<>>)
        \/ \E ok \in BOOLEAN : BuildDependent(ok)
        \/ BuildReturn
        \/ \E answer \in BOOLEAN : retries < MaxRetries /\ OinkRetry(answer)

SpecBatch == BatchInit /\ [][BatchNext]_vars

(***************************************************************************)
(* SpecVerdict: parseVerdict applied to the outputs of the three verifiers *)
(***************************************************************************)
\* verdicts = results.map(r => parseVerdict(r.output)), with the outputs kept.
CallParseVerdict(outs) ==
  /\ oink = NoOink
  /\ oink' = [success |-> TRUE,
              passed |-> \A i \in 1..PigChecks : ParseVerdict(outs[i]),
              feedback |-> Feedback(outs),
              verdicts |-> Verdicts(outs), outs |-> outs]
  /\ UNCHANGED <<disk, pc, idx, autoYes, exitc, build, ci, cmds, retries, entry,
                 ran, resumeLog>>
  /\ UNCHANGED <<dispatchVars, fileVars>>

VerdictNext == \E outs \in [1..PigChecks -> Outputs] : CallParseVerdict(outs)

SpecVerdict == OinkInit /\ [][VerdictNext]_vars

(***************************************************************************)
(* SpecLoad: loadState on the state file as saveState, a damaged write and  *)
(* abort leave it                                                          *)
(***************************************************************************)
\* The Runs written to the file: a fresh one and one after each phase.
SavedRuns == {FreshRun(<<>>), SurfedRun, PlannedRun, BuiltRun, VerifiedRun}

LoadNext ==
  \/ \E r \in SavedRuns : SaveFile(r)
  \/ \E n \in 0..2 : DamageFile(n)
  \/ RemoveFile
  \/ CallLoadState

SpecLoad == Init /\ [][LoadNext]_vars

(***************************************************************************)
(* SpecSizing: the three sizing calls on every output of up to MaxLines     *)
(* lines                                                                   *)
(***************************************************************************)
RECURSIVE SeqsUpTo(_, _)
SeqsUpTo(S, n) ==
  IF n = 0 THEN {<<>>}
  ELSE LET shorter == SeqsUpTo(S, n - 1)
       IN  shorter \cup {Append(q, x) : q \in shorter, x \in S}

SizingCalls == {"analyzeSurferNeeds", "analyzePlannerNeeds", "analyzeRatNeeds"}

SizingNext ==
  \E fn \in SizingCalls, ok \in BOOLEAN, block \in BOOLEAN,
     lines \in SeqsUpTo(LineKinds, MaxLines) : Analyze(fn, ok, block, lines)

SpecSizing == Init /\ [][SizingNext]_vars

(***************************************************************************)
(* SpecPlan: one call of runPlanPhase on the Run SURF left, for every        *)
(* outcome of its planners, rats and synthesis                              *)
(***************************************************************************)
\* start, SURF with every surfer succeeding, the checkpoint declined.
PlanInit ==
  /\ dStatus = "idle"
  /\ dN = 0
  /\ dProc = <<>>
  /\ dPromise = <<>>
  /\ dValues = <<>>
  /\ dResults = <<>>
  /\ dOrder = <<>>
  /\ dEvents = <<>>
  /\ disk = SurfedRun
  /\ pc = "idle"
  /\ idx = 0
  /\ autoYes = FALSE
  /\ exitc = "paused"
  /\ build = NoBuild
  /\ oink = NoOink
  /\ ci = NoCI
  /\ cmds = 1
  /\ retries = 0
  /\ entry = [cmd |-> "start", phase |-> "INIT"]
  /\ ran = <<"SURF">>
  /\ resumeLog = <<>>
  /\ file = NoFile
  /\ loaded = NotLoaded
  /\ arts = {}
  /\ call = NoCall
  /\ sizing = NoSizing
  /\ planOut = NoPlanOut
  /\ asked = NoAsked

PlanNext ==
  \E ok \in BOOLEAN, k \in 1..3, skip \in BOOLEAN, rok \in BOOLEAN, rk \in 2..3,
     synth \in BOOLEAN :
    \E res \in Outcomes(PlannerCount(ok, k)), rres \in Outcomes(RatCount(rok, rk)) :
      CallPlanPhase(ok, k, res, skip, rok, rk, rres, synth)

SpecPlan == PlanInit /\ [][PlanNext]_vars

(***************************************************************************)
(* SpecResume: the last command of a session, on a Run of every phase       *)
(***************************************************************************)
\* The Runs a command may find: none, the Run after initializeState and
\* after each phase, one left in PR or CI_CHECK, and one whose state file
\* says FAILED (types.ts: Phase; no function of the program writes it).
FoundRuns ==
  {NoRun, FreshRun(<<>>), SurfedRun, PlannedRun, BuiltRun, VerifiedRun,
   UpdatePhase(VerifiedRun, "PR"), UpdatePhase(VerifiedRun, "CI_CHECK"),
   UpdatePhase(SurfedRun, "FAILED")}

ResumeInit ==
  /\ dStatus = "idle"
  /\ dN = 0
  /\ dProc = <<>>
  /\ dPromise = <<>>
  /\ dValues = <<>>
  /\ dResults = <<>>
  /\ dOrder = <<>>
  /\ dEvents = <<>>
  /\ disk \in FoundRuns
  /\ pc = "idle"
  /\ idx = 0
  /\ autoYes = FALSE
  /\ exitc = "none"
  /\ build = NoBuild
  /\ oink = NoOink
  /\ ci = NoCI
  /\ cmds = MaxCommands - 1
  /\ retries = 0
  /\ entry = NoEntry
  /\ ran = <<>>
  /\ resumeLog = <<>>
  /\ file = NoFile
  /\ loaded = NotLoaded
  /\ arts = {}
  /\ call = NoCall
  /\ sizing = NoSizing
  /\ planOut = NoPlanOut
  /\ asked = NoAsked

SpecResume == ResumeInit /\ [][Next]_vars

(***************************************************************************)
(* SpecStore: the store's functions called one after the other, as the      *)
(* phases and the CLI call them, with the file writes that may fail         *)
(***************************************************************************)
\* A store call: what it was, the task or question id given, whether it threw, whether it reached
\* saveState (which sets updatedAt), the phase of the Run it removed if it
\* removed one, the Run and the artifact files it left.
StoreCall(op, id, threw, wrote, run, files) ==
  /\ call' = [op |-> op, id |-> id, threw |-> threw, wrote |-> wrote,
              removed |-> IF Exists(run) THEN "NONE" ELSE disk.phase]
  /\ disk' = run
  /\ arts' = files
  /\ UNCHANGED <<file, loaded, sizing, planOut, asked>>
  /\ UNCHANGED <<pc, idx, autoYes, exitc, build, oink, ci, cmds, retries,
                 entry, ran, resumeLog>>
  /\ UNCHANGED dispatchVars

\* "if (!state) throw new Error('No active consortium found')"
NoActive(op) == StoreCall(op, 0, TRUE, FALSE, disk, arts)

\* The entries of the three artifact lists of a Run.
Listed(r) == Len(r.findings) + Len(r.plans) + Len(r.reviews)

\* start: rmSync of an old state directory, then initializeState.
CallInitializeState ==
  /\ ~StartRefuses(disk)
  /\ StoreCall("initializeState", 0, FALSE, TRUE, FreshRun(<<>>), {})

CallUpdatePhase(p) ==
  IF ~Exists(disk) THEN NoActive("updatePhase")
  ELSE StoreCall("updatePhase", 0, FALSE, TRUE, UpdatePhase(disk, p), arts)

CallAddTask ==
  IF ~Exists(disk) THEN NoActive("addTask")
  ELSE /\ Len(disk.tasks) < MaxTasks
       /\ StoreCall("addTask", 0, FALSE, TRUE, AddTask(disk, "pending", {}), arts)

\* updateTask: "Task ${taskId} not found" for an id no record has.
CallUpdateTask(id, status) ==
  IF ~Exists(disk) THEN NoActive("updateTask")
  ELSE IF TaskIndex(disk, id) = 0
    THEN StoreCall("updateTask", id, TRUE, FALSE, disk, arts)
  ELSE StoreCall("updateTask", id, FALSE, TRUE, UpdateTask(disk, id, status), arts)

CallAddQuestion ==
  IF ~Exists(disk) THEN NoActive("addQuestion")
  ELSE /\ Len(disk.questions.pending) + Len(disk.questions.answered) < MaxStore
       /\ StoreCall("addQuestion", 0, FALSE, TRUE, AddQuestion(disk), arts)

\* answerQuestion: "Question ${questionId} not found" for an id that is not
\* pending.
CallAnswerQuestion(id, answer) ==
  IF ~Exists(disk) THEN NoActive("answerQuestion")
  ELSE IF QuestionIndex(disk, id) = 0
    THEN StoreCall("answerQuestion", id, TRUE, FALSE, disk, arts)
  ELSE StoreCall("answerQuestion", id, FALSE, TRUE,
                 AnswerQuestion(disk, id, answer), arts)

\* addFinding / addPlan / addReview: writeFileSync of the artifact, push on
\* the list, saveState. Either write may throw (io); one that throws leaves
\* its own file as it was, and nothing undoes the write before it.
CallAddArtifact(kind, name, io) ==
  IF ~Exists(disk) THEN NoActive(kind)
  ELSE /\ Listed(disk) < MaxStore
       /\ CASE io = "artifact_fails" -> StoreCall(kind, 0, TRUE, FALSE, disk, arts)
            [] io = "state_fails" ->
                 StoreCall(kind, 0, TRUE, FALSE, disk, arts \cup {<<kind, name>>})
            [] OTHER ->
                 StoreCall(kind, 0, FALSE, TRUE,
                           CASE kind = "addFinding" -> AddFinding(disk, name)
                             [] kind = "addPlan" -> AddPlan(disk, name)
                             [] OTHER -> AddReview(disk, name),
                           arts \cup {<<kind, name>>})

\* A faulty status that saves the state it loaded.
ShowStatusSaving(r) == [run |-> r, wrote |-> Exists(r)]

\* showStatus: loadState, console.log of its fields, getTotalCost (a second
\* loadState); the Run it leaves and whether it wrote it.
ShowStatus(r) == [run |-> r, wrote |-> FALSE]

CallShowStatus ==
  StoreCall("status", 0, FALSE, ShowStatus(disk).wrote, ShowStatus(disk).run, arts)

\* A faulty abort that keeps a Run that is DONE.
AbortUnlessDone(r) == IF r.phase = "DONE" THEN r ELSE NoRun

\* abort: nothing to do without a state directory, else rmSync of it with
\* the state file and the artifact directories in it.
Abort(r) == NoRun

CallAbort ==
  StoreCall("abort", 0, FALSE, FALSE, Abort(disk),
            IF Exists(Abort(disk)) THEN arts ELSE {})

StoreMutators == {"addFinding", "addPlan", "addReview"}

\* types.ts: Phase
StorePhases == {PHASE_ORDER[k] : k \in 1..Len(PHASE_ORDER)} \cup {"FAILED"}

StoreNext ==
  \/ CallInitializeState
  \/ \E p \in StorePhases : CallUpdatePhase(p)
  \/ CallAddTask
  \/ \E id \in 1..(MaxTasks + 1), st \in {"completed", "failed"} :
       CallUpdateTask(id, st)
  \/ CallAddQuestion
  \/ \E id \in 1..(MaxStore + 1) : CallAnswerQuestion(id, "yes")
  \/ \E kind \in StoreMutators, io \in {"ok", "artifact_fails", "state_fails"} :
       CallAddArtifact(kind, 1, io)
  \/ CallShowStatus
  \/ CallAbort

SpecStore == Init /\ [][StoreNext]_vars

(***************************************************************************)
(* SpecIds: addTask, updateTask, addQuestion and answerQuestion called in    *)
(* any order on one Run                                                      *)
(***************************************************************************)
\* addTask on a Run that may hold task records already.
CallAddTaskAgain ==
  /\ Exists(disk)
  /\ Len(disk.tasks) < MaxStore
  /\ StoreCall("addTask", 0, FALSE, TRUE, AddTask(disk, "pending", {}), arts)

IdsNext ==
  \/ CallInitializeState
  \/ CallAddTaskAgain
  \/ \E id \in 1..(MaxStore + 1), st \in {"completed", "failed", "blocked"} :
       CallUpdateTask(id, st)
  \/ CallAddQuestion
  \/ \E id \in 1..(MaxStore + 1) : CallAnswerQuestion(id, "yes")

SpecIds == Init /\ [][IdsNext]_vars

(***************************************************************************)
(* SpecAsk: the questions in the output of a SURF or PLAN batch, from the    *)
(* phase's return to the checkpoint prompt, with the store's question calls  *)
(***************************************************************************)
AskUnchanged ==
  /\ UNCHANGED <<file, loaded, arts, call, sizing, planOut>>
  /\ UNCHANGED <<dispatchVars, machineVars>>

\* runSurfPhase / runPlanPhase returns: {success: false} when a unit failed,
\* else {success: true, questions}.
PhaseReturns(fn, res, outs) ==
  /\ asked.stage \in {"none", "failed", "prompted"}
  /\ asked' = [stage |-> IF AllSucceeded(res) THEN "returned" ELSE "failed",
               fn |-> fn, res |-> res, outs |-> outs,
               questions |-> IF AllSucceeded(res)
                               THEN CollectQuestions(res, outs, 1) ELSE <<>>,
               shown |-> <<>>]
  /\ AskUnchanged

\* runFromPhase, "Handle any questions": if (questions && questions.length
\* > 0) each one is printed, then ask() waits for Enter.
HandleQuestions ==
  /\ asked.stage = "returned"
  /\ asked' = [asked EXCEPT !.stage = "handled", !.shown = asked.questions]
  /\ AskUnchanged

\* runFromPhase, "USER CHECKPOINT": askYesNo is called.
CheckpointPrompt ==
  /\ asked.stage = "handled"
  /\ asked' = [asked EXCEPT !.stage = "prompted"]
  /\ AskUnchanged

AskUnits == 2

AskNext ==
  \/ /\ asked.stage \in {"none", "failed", "prompted"}
     /\ \E fn \in {"runSurfPhase", "runPlanPhase"}, res \in Outcomes(AskUnits),
           outs \in [1..AskUnits -> OutputKinds] : PhaseReturns(fn, res, outs)
  \/ HandleQuestions
  \/ CheckpointPrompt
  \/ CallAddQuestion
  \/ \E id \in 1..(MaxStore + 1) : CallAnswerQuestion(id, "yes")

SpecAsk == PlanInit /\ [][AskNext]_vars

\* A unit has finished when its child closed or could not be spawned.
Finished(i) == dProc[i] \in {"errored", "closed"}

\* C1: a call with n agents and n options returns exactly n results, and
\* result i is the value unit i's promise resolved with, whatever the order in
\* which the units completed and whichever of them failed.
C1_ResultsInInputOrder ==
  dStatus = "returned" =>
    /\ Len(dResults) = dN
    /\ \A i \in 1..dN : /\ dPromise[i].kind = "resolved"
                        /\ dResults[i] = dPromise[i].value

\* C1 witness: three units completed in an order other than the input order,
\* one failed, one succeeded, and the call returned.
C1_Witness ==
  /\ dStatus = "returned"
  /\ dN = 3
  /\ dOrder = <<3, 1, 2>>
  /\ ~dResults[3].success
  /\ dResults[1].success

\* C2: the call returns only after every unit has finished, and the failure of
\* a unit never makes the call raise or return while a sibling is running.
C2_AllComplete ==
  /\ dStatus \in {"awaiting", "returned"} => DOMAIN dProc = 1..dN
  /\ dStatus = "returned" => \A i \in 1..dN : Finished(i)
  /\ dStatus = "threw" => dProc = <<>>

\* C2 witness: the first unit to complete failed, its siblings completed after
\* it, and the call returned with all three finished.
C2_Witness ==
  /\ dStatus = "returned"
  /\ dN = 3
  /\ dOrder[1] = 2
  /\ ~dResults[2].success
  /\ dResults[1].success
  /\ dResults[3].success

\* The dependent task the scheduler handled last, and whether one of its
\* blockers was unmet when it was handled: the blocker names no other task of
\* the list, or names none whose unit has completed.
LastDependent == DependentAt(build.tasks, build.pos - 1)
BlockerMet(p, b) ==
  \E q \in (1..Len(build.tasks)) \ {p} : build.tasks[q].id = b /\ q \in build.ok
HasUnmetBlocker(p) == \E b \in build.tasks[p].deps : ~BlockerMet(p, b)

\* C3: in one pass of runBuildPhase, a dependent task with a blocker that is
\* not met (failed, blocked, pending, or naming no task of the set) is not
\* dispatched and its task record ends 'blocked'.
C3_UnmetBlockerEndsBlocked ==
  (pc = "build_dep" /\ build.pos > 1 /\ HasUnmetBlocker(LastDependent)) =>
    /\ LastDependent \notin build.ran
    /\ disk.tasks[build.first + LastDependent].status = "blocked"

\* C4: when OINK returned a failing verdict and the retry was accepted, the
\* persisted phase is BUILD, and the non-empty feedback of the failing
\* verifiers is part of the prompts the next BUILD pass hands to its agents.
C4_FeedbackReachesBuild ==
  (oink.success /\ ~oink.passed /\ pc \in {"loop", "build_indep", "build_dep"}) =>
    /\ disk.phase = "BUILD"
    /\ oink.feedback # {}
    /\ (pc # "loop" /\ build.prompt # {}) => oink.feedback \subseteq build.prompt

\* A CI_CHECK cycle has just run against red checks with attempts left.
RedCycle ==
  /\ cmds' = cmds + 1
  /\ ci'.fn = "ci"
  /\ ci'.red
  /\ ci'.before < 3

\* runPRPhase has just created a pull request.
PRCreated ==
  /\ cmds' = cmds + 1
  /\ ci'.fn = "pr"
  /\ ci'.success

\* C5 as stated: every CI_CHECK cycle with red checks and fewer than 3
\* attempts raises the persisted counter by exactly 1, and no other step
\* changes the counter.
C5_EveryRedCycleCounts ==
  [][/\ RedCycle => Attempts(disk') = Attempts(disk) + 1
     /\ Attempts(disk') # Attempts(disk) => RedCycle]_vars

\* C5, amended: a CI_CHECK cycle with red checks and fewer than 3 attempts
\* raises the persisted counter by exactly 1 when the fix unit succeeds and no
\* git command fails, whether or not the fix changed the tree; when the fix
\* unit or a git command fails the counter is unchanged; the only other step
\* that changes the counter is the creation of a pull request, which sets it
\* to 0.
C5_CountedFixCycles ==
  [][/\ (RedCycle /\ ci'.success) => Attempts(disk') = Attempts(disk) + 1
     /\ (RedCycle /\ ~ci'.success) => Attempts(disk') = Attempts(disk)
     /\ Attempts(disk') # Attempts(disk) =>
          \/ RedCycle /\ ci'.success
          \/ PRCreated /\ Attempts(disk') = 0]_vars

\* C5 witness: a fix that changed nothing was counted as the second attempt.
C5_Witness ==
  /\ ci.fn = "ci"
  /\ ci.red
  /\ ~ci.dirty
  /\ ci.success
  /\ ci.before = 1
  /\ Attempts(disk) = 2

\* C6: the attempt counter is within 0..3 in every state, and a CI_CHECK
\* entered with 3 attempts used ends as a degraded success (success, checks
\* not passed, no retry) with the run DONE, without a status query or a fix.
C6_AttemptsBounded ==
  /\ Attempts(disk) \in 0..3
  /\ (ci.fn = "ci" /\ ci.before >= 3) =>
       /\ ci.success
       /\ ~ci.ciPassed
       /\ ~ci.needsRetry
       /\ ci.queries = 0
       /\ ci.fixes = 0
       /\ disk.phase = "DONE"

\* C6 witness: CI_CHECK was entered with 3 attempts used while the checks
\* were green, and ended as a degraded success.
C6_Witness ==
  /\ ci.fn = "ci"
  /\ ci.before = 3
  /\ ci.checks = "success"
  /\ ~ci.ciPassed
  /\ disk.phase = "DONE"

\* The phase function a process entering at the persisted phase p runs first.
FirstPhaseOf(p) == IF p = "INIT" THEN "SURF" ELSE p

\* C7: a resumed process re-enters at the persisted phase: the first phase
\* function it runs is that phase's, for PR and CI_CHECK too, and no earlier
\* phase is run again.
C7_ResumeAtPersistedPhase ==
  (entry.cmd = "resume" /\ ran # <<>>) => ran[1] = FirstPhaseOf(entry.phase)

FreshLists(r) ==
  /\ r.tasks = <<>>
  /\ r.questions.pending = <<>>
  /\ r.questions.answered = <<>>
  /\ r.costs = <<>>
  /\ r.findings = <<>>
  /\ r.plans = <<>>
  /\ r.reviews = <<>>

\* C9: start is refused, and leaves the Run untouched, when a Run exists whose
\* phase is neither DONE nor FAILED; otherwise it leaves a fresh Run in INIT
\* with empty task, question, cost and artifact lists.
C9_StartRefusedOrFresh ==
  [][(\E yes \in BOOLEAN : Start(yes, <<>>)) =>
       IF Exists(disk) /\ disk.phase \notin {"DONE", "FAILED"}
         THEN disk' = disk /\ pc' = "idle" /\ exitc' = "refused"
         ELSE disk'.phase = "INIT" /\ FreshLists(disk') /\ pc' = "loop"]_vars

\* C9 witness: start was refused on a Run paused in PLAN, whose artifacts
\* are still there.
C9_Witness ==
  /\ exitc = "refused"
  /\ entry = [cmd |-> "start", phase |-> "PLAN"]
  /\ disk.phase = "PLAN"
  /\ disk.plans # <<>>

\* C10: when every OINK verdict passes, the next persisted phase is PR; the
\* run does not go from OINK to DONE.
C10_PassLeadsToPR ==
  (pc = "loop" /\ oink.passed) => disk.phase \in {"OINK", "PR"}

\* The process ended because the phase function it called last reported a
\* failure, and nothing has touched the Run since.
EndedFailedIn(p) ==
  /\ pc = "idle"
  /\ exitc = "phase_failed"
  /\ ci = NoCI
  /\ ran # <<>>
  /\ ran[Len(ran)] = p

\* C11: when a SURF unit fails, or a BUILD task ends failed, the process ends
\* without running the phase again and the persisted phase is FAILED.
C11_FailureMarksRunFailed ==
  (EndedFailedIn("SURF") \/ EndedFailedIn("BUILD")) => disk.phase = "FAILED"

\* The artifacts a SURF / PLAN call records, and the units it dispatched.
Recorded(r, p) == IF p = "SURF" THEN Len(r.findings) ELSE Len(r.plans)
Dispatched(r, p) == IF p = "SURF" THEN r.surferFocuses[1] ELSE r.plannerPerspectives[1]

\* C12: a SURF (PLAN) call in which every unit succeeds stops at the
\* checkpoint with the persisted phase SURF (PLAN) and one more artifact per
\* unit it dispatched; from the checkpoint the process either goes on to the
\* next phase (approved) or ends (declined), and neither step writes the Run;
\* a declined checkpoint leaves a Run that `resume` accepts.
C12_CheckpointAfterSurfAndPlan ==
  [][/\ (pc = "loop" /\ pc' = "checkpoint") =>
          /\ PhaseAt(idx) \in {"SURF", "PLAN"}
          /\ idx' = idx
          /\ disk'.phase = PhaseAt(idx)
          /\ Recorded(disk', PhaseAt(idx)) - Recorded(disk, PhaseAt(idx))
               = Dispatched(disk', PhaseAt(idx))
     /\ pc = "checkpoint" =>
          /\ disk' = disk
          /\ ran' = ran
          /\ \/ pc' = "loop" /\ idx' = idx + 1
             \/ /\ pc' = "idle"
                /\ exitc' = "paused"
                /\ Exists(disk)
                /\ disk.phase \notin {"DONE", "FAILED"}
                /\ PhaseAt(StartIndex(disk, FALSE)) = disk.phase
     /\ (Len(ran') = Len(ran) + 1 /\ ran # <<>>
           /\ ran'[Len(ran')] \in {"PLAN", "BUILD"}) =>
          /\ pc = "loop"
          /\ idx = IndexOf(ran[Len(ran)]) + 1 \/ ran[Len(ran)] = "OINK"]_vars

\* C12 witness: the SURF checkpoint was approved, PLAN succeeded with two
\* planners, and the PLAN checkpoint was declined.
C12_Witness ==
  /\ pc = "idle"
  /\ exitc = "paused"
  /\ ran = <<"SURF", "PLAN">>
  /\ disk.phase = "PLAN"
  /\ Len(disk.plans) = 2
  /\ disk.tasks = <<>>

\* The places in tasks of the tasks whose unit ran and failed in the pass.
FailedTasks(b) == b.ran \ b.ok

\* C13: when runBuildPhase returns, it reports a failure (and the process
\* ends) exactly when the unit of at least one task failed in the pass;
\* when no task failed, blocked tasks or not, it reports success and the loop
\* goes on to OINK without writing the Run.
C13_BuildFailsIffTaskFailed ==
  [][(pc = "build_dep" /\ pc' # "build_dep" /\ exitc' # "crashed") =>
       /\ (pc' = "idle" /\ exitc' = "phase_failed") <=> FailedTasks(build) # {}
       /\ FailedTasks(build) = {} =>
            /\ pc' = "loop"
            /\ PhaseAt(idx') = "OINK"
            /\ disk' = disk]_vars

\* C13 witness: a pass returned success and moved on to OINK although it
\* had skipped a task as blocked, which is recorded 'blocked'.
C13_Witness ==
  /\ pc = "loop"
  /\ PhaseAt(idx) = "OINK"
  /\ ran[Len(ran)] = "BUILD"
  /\ BlockedTasks(build) # {}
  /\ FailedTasks(build) = {}
  /\ \E k \in 1..Len(disk.tasks) : disk.tasks[k].status = "blocked"

\* The places in tasks of the independent tasks; the tasks have distinct ids.
IndependentPlaces(tasks) == {p \in 1..Len(tasks) : IsIndependent(tasks[p])}
UniqueIds(tasks) ==
  \A p \in 1..Len(tasks), q \in 1..Len(tasks) : tasks[p].id = tasks[q].id => p = q

\* Every blocker of the task at place p is a task declared before p whose
\* unit completed in this pass.
BlockersCompletedEarlier(b, p) ==
  \A d \in b.tasks[p].deps :
    \E q \in 1..(p - 1) : b.tasks[q].id = d /\ q \in b.ok

\* C14: no task is dispatched before the independent batch, which dispatches
\* every independent task and nothing else in one step; then each step
\* handles the next dependent task in declaration order and dispatches it
\* exactly when every persisted record naming one of its blockers is
\* 'completed' at that moment; with distinct task ids, a dependent task whose
\* blockers all completed earlier in the pass (independent or dependent) is
\* dispatched.
C14_BatchThenDeclarationOrder ==
  [][/\ pc = "build_indep" => build.ran = {}
     /\ (pc = "build_indep" /\ pc' = "build_dep") =>
          /\ build'.ran = IndependentPlaces(build.tasks)
          /\ build'.pos = 1
     /\ (pc = "build_dep" /\ pc' = "build_dep") =>
          LET p == DependentAt(build.tasks, build.pos)
          IN  /\ build'.pos = build.pos + 1
              /\ build'.ran \ build.ran \subseteq {p}
              /\ build.ran \subseteq build'.ran
              /\ p \in build'.ran <=> AllDepsMet(disk, build.tasks[p])
              /\ (UniqueIds(build.tasks) /\ BlockersCompletedEarlier(build, p)) =>
                   p \in build'.ran]_vars

\* C14 witness: in the chain task-1 <- task-2 <- task-3 every unit completed:
\* task-3, whose blocker is the dependent task-2, was dispatched after it.
C14_Witness ==
  /\ pc = "build_dep"
  /\ Len(build.tasks) = 3
  /\ build.tasks[2].deps = {1}
  /\ build.tasks[3].deps = {2}
  /\ build.ran = {1, 2, 3}
  /\ build.ok = {1, 2, 3}
  /\ \A k \in 1..3 : disk.tasks[k].status = "completed"

\* No place occurs twice in the log.
NoRepeat(log) ==
  \A i \in 1..Len(log), j \in 1..Len(log) : log[i] = log[j] => i = j

\* C15: in one pass no task's unit is run twice, the units run are those of
\* the tasks dispatched, and a task skipped as blocked stays skipped for the
\* rest of the pass, whatever completes afterwards.
C15_DispatchedAtMostOnce ==
  [][/\ NoRepeat(build'.log)
     /\ {build'.log[i] : i \in 1..Len(build'.log)} = build'.ran
     /\ (pc = "build_dep" /\ pc' \in {"build_dep", "loop"}) =>
          BlockedTasks(build) \subseteq BlockedTasks(build')]_vars

\* C15 witness: task-2 was skipped as blocked on task-3, declared after it;
\* task-3 then completed, and the pass ended with task-2 still 'blocked' and
\* never dispatched.
C15_Witness ==
  /\ pc = "build_dep"
  /\ Len(build.tasks) = 3
  /\ build.tasks[2].deps = {3}
  /\ build.pos = 3
  /\ build.log = <<1, 3>>
  /\ 2 \in BlockedTasks(build)
  /\ disk.tasks[2].status = "blocked"
  /\ disk.tasks[3].status = "completed"

\* C16: when the three verifier units ran, runOinkPhase returns passed
\* exactly when every verdict is pass; otherwise its feedback is non-empty
\* and holds the output of verifier i exactly when verdict i is fail.
C16_PassedIffAllVerdictsPass ==
  oink.success =>
    /\ Len(oink.verdicts) = PigChecks
    /\ oink.passed <=> \A i \in 1..PigChecks : oink.verdicts[i]
    /\ oink.passed => oink.feedback = {}
    /\ ~oink.passed =>
         /\ oink.feedback # {}
         /\ \A i \in 1..PigChecks :
              Piece("pig", i) \in oink.feedback <=> ~oink.verdicts[i]

\* C16 witness: the verdicts were [fail, pass, fail] and the feedback is the
\* outputs of the first and the third verifier.
C16_Witness ==
  /\ pc = "oink_prompt"
  /\ oink.success
  /\ oink.verdicts = <<FALSE, TRUE, FALSE>>
  /\ ~oink.passed
  /\ oink.feedback = {Piece("pig", 1), Piece("pig", 3)}

\* C17: a CI_CHECK that found the checks pending and queried a second time
\* ends, when they are still pending, as "needs resume" (success, not passed,
\* retry) with no fix attempted, the attempt counter unchanged and the
\* persisted phase CI_CHECK; when the second answer is green it passes, and
\* when it is red the fix cycle runs.
C17_PendingTwiceNeedsResume ==
  (ci.fn = "ci" /\ ci.queries = 2) =>
    /\ ci.checks = "pending" =>
         /\ ci.success
         /\ ~ci.ciPassed
         /\ ci.needsRetry
         /\ ci.fixes = 0
         /\ Attempts(disk) = ci.before
         /\ disk.phase = "CI_CHECK"
    /\ ci.checks = "success" =>
         /\ ci.success
         /\ ci.ciPassed
         /\ ~ci.needsRetry
         /\ ci.fixes = 0
    /\ ci.checks = "failure" => ci.fixes = 1 /\ ci.red

\* C17 witness: with one attempt used, the checks were pending at both
\* queries and the phase ended as "needs resume".
C17_Witness ==
  /\ ci.fn = "ci"
  /\ ci.queries = 2
  /\ ci.checks = "pending"
  /\ ci.needsRetry
  /\ ci.before = 1
  /\ Attempts(disk) = 1
  /\ disk.phase = "CI_CHECK"

\* The place of a phase in PHASE_ORDER.
Rank(p) == CHOOSE k \in 1..Len(PHASE_ORDER) : PHASE_ORDER[k] = p

\* C18: while a Run exists, every change of its persisted phase moves forward
\* in PHASE_ORDER, except the return from OINK to BUILD.
C18_PhaseOnlyMovesForward ==
  [][(Exists(disk) /\ Exists(disk') /\ disk'.phase # "INIT") =>
       \/ Rank(disk'.phase) >= Rank(disk.phase)
       \/ disk.phase = "OINK" /\ disk'.phase = "BUILD"]_vars

\* C19: the return from OINK to BUILD is taken only on an answer the user
\* gave to the retry question, so that under --yes too a run whose
\* verification keeps failing comes to a stop.
C19_RetryOnlyByChoice ==
  [][(pc = "oink_prompt" /\ pc' = "loop") => ~autoYes]_vars

\* The file holds a text that is not the document of a Run.
Corrupt(f) == f.exists /\ \A r \in SavedRuns : f.text # Stringify(r)

\* C20: loadState on a missing file and on a corrupt file reports "no active
\* run": it returns null, raises nothing and fabricates no Run.
C20_MissingOrCorruptIsNoRun ==
  (loaded # NotLoaded /\ (~loaded.from.exists \/ Corrupt(loaded.from))) =>
    loaded.result.kind = "null"

\* C21 (as stated): a store mutator that throws leaves the persisted Run and
\* the artifact files exactly as they were: updateTask with an unknown id,
\* answerQuestion with an id that is not pending, any mutator without a Run,
\* and addFinding / addPlan / addReview when one of its two writes fails.
C21_MutatorThrowsNothingChanged ==
  [][call'.threw => (disk' = disk /\ arts' = arts)]_vars

\* The ids of a sequence of questions.
Ids(qs) == {qs[k].id : k \in 1..Len(qs)}

Distinct(qs) == \A j, k \in 1..Len(qs) : qs[j].id = qs[k].id => j = k

\* The collections hold each question added so far once: ids are given in
\* order of addition, so n questions added are the ids 1..n.
QuestionsPartitioned(r) ==
  LET P == r.questions.pending
      A == r.questions.answered
  IN  /\ Ids(P) \cap Ids(A) = {}
      /\ Distinct(P) /\ Distinct(A)
      /\ Ids(P) \cup Ids(A) = 1..(Len(P) + Len(A))
      /\ \A k \in 1..Len(P) : P[k].answer = <<>>
      /\ \A k \in 1..Len(A) : A[k].answer # <<>>

\* C22: after any sequence of addQuestion and answerQuestion calls pending
\* and answered are disjoint and hold every question added exactly once; a
\* call of either never removes a question nor takes one out of answered,
\* and answering an id that is not pending throws and changes nothing.
C22_QuestionsMoveOnce ==
  /\ [](Exists(disk) => QuestionsPartitioned(disk))
  /\ [][call'.op \in {"addQuestion", "answerQuestion"} /\ Exists(disk) =>
         /\ Ids(disk.questions.pending) \cup Ids(disk.questions.answered)
              \subseteq Ids(disk'.questions.pending)
                          \cup Ids(disk'.questions.answered)
         /\ Len(disk'.questions.answered) >= Len(disk.questions.answered)
         /\ SubSeq(disk'.questions.answered, 1, Len(disk.questions.answered))
              = disk.questions.answered
         /\ (call'.op = "answerQuestion"
               /\ call'.id \notin Ids(disk.questions.pending)
               => call'.threw /\ disk' = disk)
         /\ (call'.op = "answerQuestion"
               /\ call'.id \in Ids(disk.questions.pending)
               => /\ ~call'.threw
                  /\ Ids(disk'.questions.answered)
                       = Ids(disk.questions.answered) \cup {call'.id})]_vars

\* C22 witness: question 1 was answered, question 2 is pending, and a second
\* answer to an id that is not pending has just been rejected.
C22_Witness ==
  /\ Exists(disk)
  /\ Ids(disk.questions.answered) = {1}
  /\ Ids(disk.questions.pending) = {2}
  /\ call.op = "answerQuestion"
  /\ call.id = 1
  /\ call.threw

\* C27: status leaves the persisted Run and the artifact files unchanged and
\* never reaches saveState (updatedAt keeps its value), with or without a Run.
C27_StatusIsPureRead ==
  [][call'.op = "status" => disk' = disk /\ arts' = arts /\ ~call'.wrote]_vars

\* C27 witness: status has run on a Run with artifact files.
C27_Witness ==
  /\ call.op = "status"
  /\ Exists(disk)
  /\ arts # {}
  /\ Listed(disk) > 0

\* C28: after abort, from whatever phase, a load finds no Run and no artifact
\* file is left; a resume is refused and a start is accepted.
C28_AbortDeletesEverything ==
  call.op = "abort" =>
    /\ ~Exists(disk)
    /\ arts = {}
    /\ ResumeRefuses(disk)
    /\ ~StartRefuses(disk)

\* C28 witness: abort has run on a Run that was DONE and had artifact files
\* (C28_WitnessRunning: on one that was in BUILD).
C28_Witness ==
  /\ call.op = "abort"
  /\ call.removed = "DONE"

C28_WitnessRunning ==
  /\ call.op = "abort"
  /\ call.removed = "BUILD"

\* old is the beginning of new.
IsPrefix(old, new) ==
  /\ Len(old) <= Len(new)
  /\ SubSeq(new, 1, Len(old)) = old

\* C23 (as stated): while a Run lasts, every step leaves each artifact list
\* with the entries it had, in place, and without a name listed twice (a
\* second entry of a name is a second write of the file of that name).
C23_ArtifactListsAppendOnly ==
  [][Exists(disk) /\ Exists(disk') =>
       /\ IsPrefix(disk.findings, disk'.findings)
       /\ IsPrefix(disk.plans, disk'.plans)
       /\ IsPrefix(disk.critiques, disk'.critiques)
       /\ IsPrefix(disk.reviews, disk'.reviews)
       /\ NoRepeat(disk'.findings)
       /\ NoRepeat(disk'.plans)
       /\ NoRepeat(disk'.critiques)
       /\ NoRepeat(disk'.reviews)]_vars

\* C24: whatever the sizing call returns (a failure, no block, lines that
\* are no entries, 0, 1 or more than the maximum of entries), the phase goes
\* on with 2..5 surfers, 1..5 planners, 2..3 rats.
C24_UnitCountWithinBounds ==
  /\ sizing.fn = "analyzeSurferNeeds" => sizing.count \in 2..5
  /\ sizing.fn = "analyzePlannerNeeds" => sizing.count \in 1..5
  /\ sizing.fn = "analyzeRatNeeds" => sizing.count \in 2..3

\* C24 witness: the planner sizing call listed six entries and five planners
\* are made (C24_WitnessOne: the surfer sizing call listed one entry among
\* lines that are none, and three surfers are made).
C24_Witness ==
  /\ sizing.fn = "analyzePlannerNeeds"
  /\ sizing.ok /\ sizing.block
  /\ ParsedEntries(sizing.block, sizing.lines) = 6
  /\ sizing.count = 5

C24_WitnessOne ==
  /\ sizing.fn = "analyzeSurferNeeds"
  /\ sizing.ok /\ sizing.block
  /\ Len(sizing.lines) = 3
  /\ ParsedEntries(sizing.block, sizing.lines) = 1
  /\ sizing.count = 3

\* The rats of the call that succeeded.
RatsSucceeded == {i \in 1..Len(planOut.rres) : planOut.rres[i]}

C25_WitnessAllRats ==
  /\ planOut.fn = "runPlanPhase"
  /\ ~planOut.skip
  /\ RatsSucceeded = {}
  /\ planOut.out.success

C25_WitnessSynthesis ==
  /\ planOut.fn = "runPlanPhase"
  /\ AllSucceeded(planOut.res)
  /\ AllSucceeded(planOut.rres)
  /\ ~planOut.synth
  /\ ~planOut.out.success
  /\ disk.finalPlan = <<>>

\* C26: a resume that finds no Run, or a Run in DONE or FAILED, ends at once:
\* the persisted Run is as it was, no phase function has run and the process
\* is over with the exit of that refusal.
C26_ResumeRefusedWithoutLiveRun ==
  [][(pc = "idle" /\ cmds' = cmds + 1 /\ ci' = NoCI
        /\ entry' = [cmd |-> "resume", phase |-> disk.phase]
        /\ disk.phase \in {"NONE", "DONE", "FAILED"}) =>
       /\ disk' = disk
       /\ pc' = "idle"
       /\ ran' = <<>>
       /\ resumeLog' = resumeLog
       /\ exitc' = (CASE disk.phase = "NONE" -> "no_run"
                      [] disk.phase = "DONE" -> "already_done"
                      [] OTHER -> "failed_state")]_vars

\* C26 witness: resume was refused on a Run that is DONE (C26_WitnessFailed:
\* on one that is FAILED; C26_WitnessNoRun: without a Run).
C26_Witness ==
  /\ entry = [cmd |-> "resume", phase |-> "DONE"]
  /\ exitc = "already_done"
  /\ disk = VerifiedRun

C26_WitnessFailed ==
  /\ entry = [cmd |-> "resume", phase |-> "FAILED"]
  /\ exitc = "failed_state"
  /\ disk.phase = "FAILED"

C26_WitnessNoRun ==
  /\ entry = [cmd |-> "resume", phase |-> "NONE"]
  /\ exitc = "no_run"
  /\ ~Exists(disk)

\* C29: a runPRPhase that returns a failure leaves the Run's PR url, PR
\* number and attempt counter as they were (absent on a Run that had no PR),
\* and it fails exactly when the push, the Robot King or the creation
\* failed; runCICheckPhase on a Run without a PR number returns a failure,
\* asks for no status and leaves the Run, its phase and counter included, as
\* it was.
C29_PRFailureRecordsNothing ==
  [][/\ (cmds' = cmds + 1 /\ ci'.fn = "pr" /\ ~ci'.success) =>
          /\ disk'.prUrl = disk.prUrl
          /\ disk'.prNumber = disk.prNumber
          /\ disk'.ciCheckAttempts = disk.ciCheckAttempts
     /\ (cmds' = cmds + 1 /\ ci'.fn = "pr" /\ ci'.success) =>
          disk'.prUrl # <<>> /\ disk'.ciCheckAttempts = <<0>>
     /\ (cmds' = cmds + 1 /\ ci'.fn = "ci" /\ disk.prNumber = <<>>) =>
          /\ ~ci'.success
          /\ ci'.queries = 0
          /\ disk' = disk]_vars

\* C29 witness: the push failed on a Run without a PR: the phase is PR and
\* no url, number or counter is recorded (C29_WitnessNoPR: runCICheckPhase
\* failed on a Run whose created PR had no number in its url).
C29_Witness ==
  /\ ci.fn = "pr"
  /\ ~ci.success
  /\ disk.phase = "PR"
  /\ disk.prUrl = <<>>
  /\ disk.prNumber = <<>>
  /\ disk.ciCheckAttempts = <<>>

C29_WitnessNoPR ==
  /\ ci.fn = "ci"
  /\ ~ci.success
  /\ ci.queries = 0
  /\ disk.prUrl # <<>>
  /\ disk.prNumber = <<>>

\* C30 (as stated): a runCICheckPhase in which a `gh pr checks` command
\* ended with an error returns a failure.
C30_QueryErrorFailsPhase ==
  (ci.fn = "ci" /\ \E i \in 1..Len(ci.raw) : ci.raw[i] = "error") => ~ci.success

\* The units of the batch whose output holds a question: a marker and a text
\* after it.
WithQuestion ==
  {i \in 1..Len(asked.res) : asked.res[i]
                               /\ asked.outs[i] \in {"question", "clarification"}}

PassIndication(o) == o.vpass \/ o.pass10

\* The output says fail: an explicit fail marker, or the word in its first
\* ten lines.
FailIndication(o) == o.vfail \/ o.fail10

\* C32: the verdict of an output that says neither pass nor fail, or says
\* both, is pass; a verdict is fail only for an output that says fail and
\* does not say pass.
C32_AmbiguousVerdictPasses ==
  \A i \in 1..Len(oink.outs) :
    LET o == oink.outs[i]
    IN  /\ (PassIndication(o) <=> FailIndication(o)) => oink.verdicts[i]
        /\ ~oink.verdicts[i] => (FailIndication(o) /\ ~PassIndication(o))

\* C33: the Run that runPRPhase leaves after a success has phase PR, and the
\* Run that a fix cycle of runCICheckPhase leaves has phase CI_CHECK; the PR
\* url and number are written by runPRPhase only, once, and the attempt
\* counter is changed by a fix cycle only.
C33_LaterWritesKeepEnteredPhase ==
  /\ []((ci.fn = "pr" /\ ci.success) => disk.phase = "PR")
  /\ []((ci.fn = "ci" /\ ci.success /\ ci.fixes = 1) => disk.phase = "CI_CHECK")
  /\ [][(Exists(disk) /\ Exists(disk')) =>
          /\ (disk'.prUrl # disk.prUrl \/ disk'.prNumber # disk.prNumber) =>
               (ci'.fn = "pr" /\ disk.prUrl = <<>>)
          /\ Attempts(disk') # Attempts(disk) => (ci'.fn = "ci" /\ ci'.fixes = 1)]_vars

\* The first event the child of unit i fired.
FirstEvent(i) == dEvents[i][1]

\* C35: a unit's promise is never rejected and is settled by the first event
\* of its child: success is TRUE exactly when that child closed with exit
\* code 0, a child that could not be spawned and a child that exited non-zero
\* give success FALSE with a non-empty error, and a promise that is settled
\* keeps its value when a second event fires.  A call that returned holds one
\* result per unit.
C35_OneResultFirstEventWins ==
  /\ [](\A i \in DOMAIN dPromise :
          /\ dPromise[i].kind # "rejected"
          /\ dPromise[i] = Pending <=> dEvents[i] = <<>>
          /\ dPromise[i] # Pending =>
               /\ dPromise[i].value.success <=>
                    \E k \in 1..Len(dEvents[i]) :
                      dEvents[i][k] = [ev |-> "close", code |-> 0]
               /\ dPromise[i].value.success <=>
                    FirstEvent(i) = [ev |-> "close", code |-> 0]
               /\ ~dPromise[i].value.success => dPromise[i].value.error # "")
  /\ [](dStatus = "returned" => Len(dResults) = dN)
  /\ [][\A i \in DOMAIN dPromise :
          (dStatus' # "idle" /\ dN' = dN /\ dStatus # "threw" /\ dPromise[i] # Pending) =>
            (i \in DOMAIN dPromise' /\ dPromise'[i] = dPromise[i])]_vars

\* C35 witness: the call returned; the child of unit 1 could not be spawned
\* and closed afterwards, the child of unit 2 exited non-zero, the child of
\* unit 3 exited 0; unit 1 has the result of its 'error' event.
C35_Witness ==
  /\ dStatus = "returned"
  /\ dN = 3
  /\ Len(dEvents[1]) = 2
  /\ dResults[1] = ErrorResult(1)
  /\ dResults[2] = CloseResult(2, 1)
  /\ dResults[3] = CloseResult(3, 0)

\* The statuses of the Run's task records, in order.
Statuses(r) == [k \in 1..Len(r.tasks) |-> r.tasks[k].status]

\* A step writes something derived from a unit's result: an artifact list
\* grows, or the status of a task record changes.
ResultWrite ==
  \/ disk'.findings # disk.findings
  \/ disk'.plans # disk.plans
  \/ disk'.reviews # disk.reviews
  \/ \E k \in 1..Len(disk.tasks) :
       k <= Len(disk'.tasks) /\ disk'.tasks[k].status # disk.tasks[k].status

\* The units of the batch that succeeded, in input order.
RECURSIVE SucceededFrom(_)
SucceededFrom(i) ==
  IF i > dN THEN <<>>
  ELSE (IF dResults[i].success THEN <<i>> ELSE <<>>) \o SucceededFrom(i + 1)

\* The entries a step appended to a list, the lint review (0) left out.
Appended(old, new) ==
  SelectSeq(SubSeq(new, Len(old) + 1, Len(new)), LAMBDA x : x # 0)

CreatedByPass == (build.first + 1)..Len(disk.tasks)

\* C36: a pass of runBuildPhase changes no task record that was in the Run
\* when the pass began, and when the pass has handled its last task every
\* record it created is completed, failed or blocked.
C36_PassUpdatesOwnRecords ==
  /\ [][(pc \in {"build_indep", "build_dep"}) =>
          (\A k \in 1..build.first :
             (k <= Len(disk.tasks) /\ k <= Len(disk'.tasks)) =>
               (disk'.tasks[k] = disk.tasks[k]))]_vars
  /\ []((pc = "build_dep" /\ build.pos > Len(DependentTasks(build.tasks))) =>
          \A k \in CreatedByPass :
            disk.tasks[k].status \in {"completed", "failed", "blocked"})

\* The resume the process was started by, and the phases it has run.
LastResume == resumeLog[Len(resumeLog)]
PhasesRan == {ran[k] : k \in 1..Len(ran)}

\* The process was started by a resume of a Run that an earlier process left
\* paused at the checkpoint of SURF or PLAN.
ResumedAtCheckpoint ==
  /\ entry.cmd = "resume"
  /\ resumeLog # <<>>
  /\ LastResume.after = "paused"
  /\ LastResume.run.phase \in {"SURF", "PLAN"}
  /\ entry.phase = LastResume.run.phase

\* C37: a process resumed at the checkpoint of SURF (PLAN) does not run SURF
\* (PLAN) again, and the Run keeps the number of findings (plans) it had when
\* the resume loaded it.
C37_ResumeContinuesFromCheckpoint ==
  ResumedAtCheckpoint =>
    /\ LastResume.run.phase \notin PhasesRan
    /\ LastResume.run.phase = "SURF" =>
         Len(disk.findings) = Len(LastResume.run.findings)
    /\ LastResume.run.phase = "PLAN" =>
         Len(disk.plans) = Len(LastResume.run.plans)

\* The entries a step appended to a list.
NewEntries(old, new) == SubSeq(new, Len(old) + 1, Len(new))

\* C38: when a unit of the joined SURF (PLAN) batch failed, the phase ends
\* the process as failed, and the findings (plans) it appended are one entry
\* for each unit that succeeded and none for a unit that failed.
C38_FailedBatchKeepsSiblings ==
  [][(dStatus = "returned" /\ pc = "loop" /\ ran' # ran
        /\ PhaseAt(idx) \in {"SURF", "PLAN"}
        /\ \E i \in 1..dN : ~dResults[i].success) =>
       /\ pc' = "idle"
       /\ exitc' = "phase_failed"
       /\ PhaseAt(idx) = "SURF" =>
            NewEntries(disk.findings, disk'.findings) = SucceededFrom(1)
       /\ PhaseAt(idx) = "PLAN" =>
            (NewEntries(disk.plans, disk'.plans) = SucceededFrom(1))]_vars

\* C38 witness: SURF ended as failed after its first unit failed and its
\* second succeeded; the Run holds the finding of the second unit alone
\* (C38_WitnessPlan: the same for PLAN, after the findings of SURF).
C38_Witness ==
  /\ dStatus = "returned"
  /\ exitc = "phase_failed"
  /\ disk.phase = "SURF"
  /\ ~dResults[1].success
  /\ dResults[2].success
  /\ disk.findings = <<2>>

C38_WitnessPlan ==
  /\ dStatus = "returned"
  /\ exitc = "phase_failed"
  /\ disk.phase = "PLAN"
  /\ dResults[1].success
  /\ ~dResults[2].success
  /\ disk.plans = <<1>>
  /\ disk.findings = <<1, 2>>

\* C39: when a verifier of the joined OINK batch failed to run, runOinkPhase
\* returns a failure: the process ends as failed with no verdicts and no
\* feedback kept, the persisted phase is OINK (not DONE, not BUILD) and the
\* retry question is not reached; when all three ran, the phase succeeds
\* and passes exactly when every verdict is pass.  Both hold whether the lint
\* unit ran (its review, 0, is appended) or failed.
C39_VerifierErrorIsNotAVerdict ==
  [][(dStatus = "returned" /\ pc = "loop" /\ PhaseAt(idx) = "OINK" /\ ran' # ran
        /\ disk.finalPlan # <<>>) =>
       IF \E i \in 1..dN : ~dResults[i].success
         THEN /\ pc' = "idle"
              /\ exitc' = "phase_failed"
              /\ oink' = NoOink
              /\ disk'.phase = "OINK"
              /\ retries' = retries
         ELSE /\ oink'.success
              /\ oink'.passed <=> \A i \in 1..PigChecks : oink'.verdicts[i]
              /\ pc' = (IF oink'.passed THEN "loop" ELSE "oink_prompt")]_vars

\* C39 witness: the first verifier failed to run after the lint unit ran;
\* the process ended as failed with the phase OINK and the reviews of lint
\* and of the two other verifiers (C39_WitnessNoLint: the lint unit failed
\* and all verifiers ran, and the phase passed).
C39_Witness ==
  /\ dStatus = "returned"
  /\ dN = PigChecks
  /\ ~dResults[1].success
  /\ exitc = "phase_failed"
  /\ disk.phase = "OINK"
  /\ disk.reviews = <<0, 2, 3>>

C39_WitnessNoLint ==
  /\ dStatus = "returned"
  /\ dN = PigChecks
  /\ oink.passed
  /\ disk.phase = "DONE"
  /\ disk.reviews = <<1, 2, 3>>

\* C40: in a Run no two task records have the same id, and no two questions,
\* pending or answered, have the same id.
C40_StoreIdsUnique ==
  Exists(disk) =>
    /\ Distinct(disk.tasks)
    /\ Distinct(disk.questions.pending \o disk.questions.answered)

\* C40 witness: two task records, the second one updated, and two questions,
\* the first answered before the call that has just added the second.
C40_Witness ==
  /\ Exists(disk)
  /\ Len(disk.tasks) = 2
  /\ disk.tasks[2].status = "failed"
  /\ Len(disk.questions.answered) = 1
  /\ Len(disk.questions.pending) = 1
  /\ disk.questions.pending[1].id = 2
  /\ call.op = "addQuestion"

====
